---- MODULE Spec2Model ----
(***************************************************************************)
(* Debug-session source mapping of the JSP extension: the marker parser    *)
(* and line mappers (tomcatJspSourceMap), the generated-source marker      *)
(* cache (GeneratedJavaMarkerCache) and the breakpoint translator          *)
(* (javaBreakpointTranslator), as state machines over a small file system. *)
(***************************************************************************)
EXTENDS Integers, Sequences, FiniteSets, TLC

VARIABLES
  markersIn,       \* SpecMap: the marker list handed to a line mapper
  call,            \* SpecMap: the last line-mapper call (operation and arguments)
  ret,             \* SpecMap: what that call returned
  disk,            \* the file system: path -> file or NoFileOnDisk
  now,             \* Date.now()
  map,             \* GeneratedJavaMarkerCache.map, in insertion (LRU) order
  maxEntries,      \* GeneratedJavaMarkerCache.maxEntries
  statDebounceMs,  \* GeneratedJavaMarkerCache.statDebounceMs
  lastOp,          \* the last marker-cache call: arguments, result, file-system accesses
  settings,        \* the translator's settings (readSettings)
  generatedJavaPathCache,  \* template path -> located compiled source, with its time
  jspPathCache,    \* the translator's resolved-template-path cache
  pendingByRequestSeq,     \* request seq -> PendingSetBreakpoints
  sfMap,           \* the stack-frame rewriter's own marker cache map
  sfJspPathCache,  \* the stack-frame rewriter's resolved-template-path cache
  trackers,        \* per debug session, the callbacks its trackers were created with
  sent,            \* history: per request seq, what the rewritten request was made from
  handled,         \* history: the last message handled, before and after
  steps            \* messages delivered and file-system changes so far

pureVars == <<markersIn, call, ret>>
cacheVars == <<disk, now, map, maxEntries, statDebounceMs, lastOp>>
debugVars ==
  <<settings, generatedJavaPathCache, jspPathCache, pendingByRequestSeq, sfMap,
    sfJspPathCache, trackers, sent, handled, steps>>
vars ==
  <<markersIn, call, ret, disk, now, map, maxEntries, statDebounceMs, lastOp,
    settings, generatedJavaPathCache, jspPathCache, pendingByRequestSeq, sfMap,
    sfJspPathCache, trackers, sent, handled, steps>>

\* ------------------------------------------------------------------ values

\* An optional value is a sequence of at most one element: undefined is the
\* empty sequence.
None == <<>>
Some(v) == <<v>>
Val(o) == o[1]

\* A template reference as written in a marker: the path segments, whether the
\* text starts with a separator, and the separator it is written with.
Ref(lead, segs, sep) == [lead |-> lead, segs |-> segs, sep |-> sep]

\* String.prototype.replace(/\\/g, '/') on a template reference.
NormalizeSlashes(r) == [r EXCEPT !.sep = "/"]

RefWebappIndex == Ref(TRUE, <<"webapp", "index.jsp">>, "/")
RefWebappIndexRel == Ref(FALSE, <<"webapp", "index.jsp">>, "/")
RefWebappIndexBs == Ref(TRUE, <<"webapp", "index.jsp">>, "\\")
RefIndexBase == Ref(FALSE, <<"index.jsp">>, "/")
RefHeader == Ref(FALSE, <<"WEB-INF", "header.jspf">>, "/")

\* TomcatJspMarker
Marker(javaLine, jspLine, jspFile) ==
  [javaLine |-> javaLine, jspLine |-> jspLine, jspFile |-> jspFile]

\* ------------------------------------------------------------ line mappers

\* The while loop of mapJavaLineToJsp; lo, hi are 1-based here, so that
\* (lo + hi) \div 2 is the code's ((lo + hi) >> 1) + 1.
RECURSIVE FloorSearch(_, _, _, _, _)
FloorSearch(markers, javaLine, lo, hi, best) ==
  IF lo > hi THEN best
  ELSE LET mid == (lo + hi) \div 2
           m == markers[mid]
       IN IF m.javaLine = javaLine THEN Some(m)
          ELSE IF m.javaLine < javaLine
               THEN FloorSearch(markers, javaLine, mid + 1, hi, Some(m))
               ELSE FloorSearch(markers, javaLine, lo, mid - 1, best)

\* A plausible slip: the candidate is not kept while the range narrows upward.
mapJavaLineToJsp_Mut(markers, javaLine) ==
  IF Len(markers) = 0 THEN None
  ELSE LET m == markers[(1 + Len(markers)) \div 2]
           best == IF m.javaLine <= javaLine THEN Some(m) ELSE None
       IN IF best = None THEN None
          ELSE Some([jspLine |-> Val(best).jspLine, jspFile |-> Val(best).jspFile])

\* A plausible slip: a floor marker without a template reference takes the
\* reference of the nearest earlier marker that has one.
mapJavaLineToJsp_InheritsFile(markers, javaLine) ==
  IF Len(markers) = 0 THEN None
  ELSE LET best == FloorSearch(markers, javaLine, 1, Len(markers), None)
           named == {i \in 1..Len(markers) :
                       /\ markers[i].javaLine <= javaLine
                       /\ markers[i].jspFile # None}
       IN IF best = None THEN None
          ELSE Some([jspLine |-> Val(best).jspLine,
                     jspFile |->
                       IF Val(best).jspFile = None /\ named # {}
                       THEN markers[CHOOSE i \in named : \A j \in named : j <= i].jspFile
                       ELSE Val(best).jspFile])

mapJavaLineToJsp(markers, javaLine) ==
  IF Len(markers) = 0 THEN None
  ELSE LET best == FloorSearch(markers, javaLine, 1, Len(markers), None)
       IN IF best = None THEN None
          ELSE Some([jspLine |-> Val(best).jspLine, jspFile |-> Val(best).jspFile])

\* The for loop of mapJspLineToJavaLine over markers[i..], carrying best.
RECURSIVE BestJspMarker(_, _, _, _, _)
BestJspMarker(markers, normalizedRefs, jspLine, i, best) ==
  IF i > Len(markers) THEN best
  ELSE LET m == markers[i]
           skip == \/ m.jspFile = None
                   \/ NormalizeSlashes(Val(m.jspFile)) \notin normalizedRefs
           take == /\ ~skip
                   /\ m.jspLine <= jspLine
                   /\ \/ best = None
                      \/ m.jspLine > Val(best).jspLine
                      \/ m.jspLine = Val(best).jspLine /\ m.javaLine > Val(best).javaLine
       IN BestJspMarker(markers, normalizedRefs, jspLine, i + 1,
                        IF take
                        THEN Some([javaLine |-> m.javaLine, jspLine |-> m.jspLine])
                        ELSE best)

\* A plausible slip: the template reference of a marker is not compared.
mapJspLineToJavaLine_Mut(markers, possibleJspFileRefs, jspLine) ==
  LET all == {NormalizeSlashes(Val(markers[i].jspFile)) :
                i \in {j \in 1..Len(markers) : markers[j].jspFile # None}}
      best == BestJspMarker(markers, all, jspLine, 1, None)
  IN IF best = None THEN None ELSE Some(Val(best).javaLine + 1)

mapJspLineToJavaLine(markers, possibleJspFileRefs, jspLine) ==
  LET normalizedRefs == {NormalizeSlashes(r) : r \in possibleJspFileRefs}
      best == BestJspMarker(markers, normalizedRefs, jspLine, 1, None)
  IN IF best = None THEN None ELSE Some(Val(best).javaLine + 1)

\* -------------------------------------------------------------- file system

\* Absolute paths are sequences of segments.
GenIndex == <<"work", "index_jsp.java">>
GenOther == <<"work", "other_jsp.java">>

\* A path with no file: statSync and existsSync fail on it.
NoFileOnDisk == None

\* One line of generated source: code, or a marker comment in one of the forms
\* the parser knows, with the template line and the template reference it states.
CodeLine == [form |-> "code", n |-> 0, file |-> None]
MarkerLine(form, n, file) == [form |-> form, n |-> n, file |-> file]

\* The ordered pattern list of parseTomcatGeneratedJavaMarkers: the form each
\* pattern matches and whether it has a file group.
Patterns ==
  << [form |-> "// line N \"F\"", fileGroup |-> TRUE],
     [form |-> "// line N \"F\" */", fileGroup |-> TRUE],
     [form |-> "// N \"F\"", fileGroup |-> TRUE],
     [form |-> "// line N", fileGroup |-> FALSE],
     [form |-> "// N", fileGroup |-> FALSE] >>

\* A plausible slip: the 0-based loop index is stored as the javaLine.
MatchLine_ZeroBased(lineText, i, k) ==
  IF \E j \in k..Len(Patterns) : Patterns[j].form = lineText.form
  THEN LET j == CHOOSE j \in k..Len(Patterns) : Patterns[j].form = lineText.form
       IN << Marker(i - 1, lineText.n,
                    IF Patterns[j].fileGroup THEN lineText.file ELSE None) >>
  ELSE <<>>

\* The inner loop over the patterns for one line: the first match wins.
RECURSIVE MatchLine(_, _, _)
MatchLine(lineText, i, k) ==
  IF k > Len(Patterns) THEN <<>>
  ELSE IF Patterns[k].form = lineText.form
       THEN << Marker(i, lineText.n,
                      IF Patterns[k].fileGroup THEN lineText.file ELSE None) >>
       ELSE MatchLine(lineText, i, k + 1)

RECURSIVE ParseFrom(_, _)
ParseFrom(lines, i) ==
  IF i > Len(lines) THEN <<>>
  ELSE MatchLine(lines[i], i, 1) \o ParseFrom(lines, i + 1)

parseTomcatGeneratedJavaMarkers(javaSourceText) == ParseFrom(javaSourceText, 1)

\* fs.statSync(p) / fs.readFileSync(p): the file at p, if any.
StatOf(fs, p) == IF p \in DOMAIN fs THEN fs[p] ELSE NoFileOnDisk

\* fs.existsSync(p)
existsSync(fs, p) == StatOf(fs, p) # NoFileOnDisk

\* stat.size: every line counts one unit, so texts of equal length have equal size.
ByteLength(text) == Len(text)

File(text, mtimeMs, ino, readable) ==
  [text |-> text, mtimeMs |-> mtimeMs, ino |-> ino, readable |-> readable]

\* ------------------------------------------------------------ marker cache

\* CacheEntry, with the key it is stored under.
Entry(key, ino, mtimeMs, size, markers, lastStatCheckMs) ==
  [key |-> key, ino |-> ino, mtimeMs |-> mtimeMs, size |-> size,
   markers |-> markers, lastStatCheckMs |-> lastStatCheckMs]

\* Math.max(a, b)
MathMax(a, b) == IF a > b THEN a ELSE b

\* Map.get
MapGet(m, key) ==
  IF \E i \in 1..Len(m) : m[i].key = key
  THEN Some(m[CHOOSE i \in 1..Len(m) : m[i].key = key])
  ELSE None

\* Map.delete
MapDelete(m, key) == SelectSeq(m, LAMBDA e : e.key # key)

\* A plausible slip: Map.set on a key already present keeps its position.
touch_InPlace(m, key, entry) ==
  IF MapGet(m, key) # None
  THEN [i \in 1..Len(m) |-> IF m[i].key = key THEN entry ELSE m[i]]
  ELSE Append(m, entry)

\* touch: delete + set moves the key to the end.
touch(m, key, entry) == Append(MapDelete(m, key), entry)

\* A plausible slip: the newest entries are dropped instead of the oldest.
enforceMaxEntries_DropsNewest(m, max) ==
  IF Len(m) > max THEN SubSeq(m, 1, MathMax(max, 0)) ELSE m

RECURSIVE enforceMaxEntries(_, _)
enforceMaxEntries(m, max) ==
  IF Len(m) > max THEN enforceMaxEntries(Tail(m), max) ELSE m

\* A plausible slip: the identity token is not compared.
FingerprintFresh_NoIno(existing, stat) ==
  /\ existing # None
  /\ Val(existing).mtimeMs = stat.mtimeMs
  /\ Val(existing).size = ByteLength(stat.text)

\* A plausible slip: the identity tokens must be equal, also when one is absent.
FingerprintFresh_StrictIno(existing, stat) ==
  /\ existing # None
  /\ Val(existing).mtimeMs = stat.mtimeMs
  /\ Val(existing).size = ByteLength(stat.text)
  /\ Val(existing).ino = stat.ino

\* Whether the stat-based comparison treats the cached entry as fresh.
FingerprintFresh(existing, stat) ==
  /\ existing # None
  /\ Val(existing).mtimeMs = stat.mtimeMs
  /\ Val(existing).size = ByteLength(stat.text)
  /\ \/ Val(existing).ino = None
     \/ stat.ino = None
     \/ Val(existing).ino = stat.ino

\* What one call returns, with the map it leaves and the file-system calls made.
ReadOutcome(m, result, stats, reads, debounced) ==
  [map |-> m, result |-> result, stats |-> stats, reads |-> reads,
   debounced |-> debounced]

\* A plausible slip: the debounce window is ignored.
InDebounceWindow_Never(existing, forceStat, debounce, t) == FALSE

\* The first condition of readMarkersForGeneratedJavaFile.
InDebounceWindow(existing, forceStat, debounce, t) ==
  /\ ~forceStat
  /\ existing # None
  /\ debounce > 0
  /\ t - Val(existing).lastStatCheckMs < debounce

\* The re-read branch: readFileSync, parse, touch, enforceMaxEntries.
Reparse(m, stat, t, max, generatedJavaPath) ==
  IF ~stat.readable
  THEN \* readFileSync throws
       ReadOutcome(MapDelete(m, generatedJavaPath), None, 1, 1, FALSE)
  ELSE LET markers == parseTomcatGeneratedJavaMarkers(stat.text)
           entry == Entry(generatedJavaPath, stat.ino, stat.mtimeMs,
                          ByteLength(stat.text), markers, t)
       IN ReadOutcome(enforceMaxEntries(touch(m, generatedJavaPath, entry), max),
                      Some(markers), 1, 1, FALSE)

\* A plausible slip: a forced read still honours the debounce window.
readMarkers_ForceIgnored(m, fs, t, debounce, max, generatedJavaPath, forceStat) ==
  LET existing == MapGet(m, generatedJavaPath)
      stat == StatOf(fs, generatedJavaPath)
  IN IF InDebounceWindow(existing, FALSE, debounce, t)
     THEN ReadOutcome(touch(m, generatedJavaPath, Val(existing)),
                      Some(Val(existing).markers), 0, 0, TRUE)
     ELSE IF stat = NoFileOnDisk
     THEN ReadOutcome(MapDelete(m, generatedJavaPath), None, 1, 0, FALSE)
     ELSE IF FingerprintFresh(existing, Val(stat))
     THEN ReadOutcome(
            touch(m, generatedJavaPath, [Val(existing) EXCEPT !.lastStatCheckMs = t]),
            Some(Val(existing).markers), 1, 0, FALSE)
     ELSE Reparse(m, Val(stat), t, max, generatedJavaPath)

\* A plausible slip: when the file cannot be examined, the entry is kept and
\* its markers are returned.
readMarkers_KeepsOnError(m, fs, t, debounce, max, generatedJavaPath, forceStat) ==
  LET existing == MapGet(m, generatedJavaPath)
      stat == StatOf(fs, generatedJavaPath)
  IN IF InDebounceWindow(existing, forceStat, debounce, t)
     THEN ReadOutcome(touch(m, generatedJavaPath, Val(existing)),
                      Some(Val(existing).markers), 0, 0, TRUE)
     ELSE IF stat = NoFileOnDisk
     THEN ReadOutcome(m, IF existing = None THEN None ELSE Some(Val(existing).markers),
                      1, 0, FALSE)
     ELSE IF FingerprintFresh(existing, Val(stat))
     THEN ReadOutcome(
            touch(m, generatedJavaPath, [Val(existing) EXCEPT !.lastStatCheckMs = t]),
            Some(Val(existing).markers), 1, 0, FALSE)
     ELSE Reparse(m, Val(stat), t, max, generatedJavaPath)

\* readMarkersForGeneratedJavaFile on cache map m, file system fs, at time t.
\* The read with a debounce hit that renews the entry's last-check time.
readMarkers_HitRenewsWindow(m, fs, t, debounce, max, generatedJavaPath, forceStat) ==
  LET existing == MapGet(m, generatedJavaPath)
      stat == StatOf(fs, generatedJavaPath)
  IN IF InDebounceWindow(existing, forceStat, debounce, t)
     THEN ReadOutcome(touch(m, generatedJavaPath,
                            [Val(existing) EXCEPT !.lastStatCheckMs = t]),
                      Some(Val(existing).markers), 0, 0, TRUE)
     ELSE IF stat = NoFileOnDisk
     THEN ReadOutcome(MapDelete(m, generatedJavaPath), None, 1, 0, FALSE)
     ELSE IF FingerprintFresh(existing, Val(stat))
     THEN ReadOutcome(
            touch(m, generatedJavaPath, [Val(existing) EXCEPT !.lastStatCheckMs = t]),
            Some(Val(existing).markers), 1, 0, FALSE)
     ELSE Reparse(m, Val(stat), t, max, generatedJavaPath)

readMarkers(m, fs, t, debounce, max, generatedJavaPath, forceStat) ==
  LET existing == MapGet(m, generatedJavaPath)
      stat == StatOf(fs, generatedJavaPath)
  IN IF InDebounceWindow(existing, forceStat, debounce, t)
     THEN ReadOutcome(touch(m, generatedJavaPath, Val(existing)),
                      Some(Val(existing).markers), 0, 0, TRUE)
     ELSE IF stat = NoFileOnDisk
     THEN \* statSync throws
          ReadOutcome(MapDelete(m, generatedJavaPath), None, 1, 0, FALSE)
     ELSE IF FingerprintFresh(existing, Val(stat))
     THEN ReadOutcome(
            touch(m, generatedJavaPath, [Val(existing) EXCEPT !.lastStatCheckMs = t]),
            Some(Val(existing).markers), 1, 0, FALSE)
     ELSE Reparse(m, Val(stat), t, max, generatedJavaPath)

\* ------------------------------------------------------------------ paths

JspIndex == <<"ws", "webapp", "index.jsp">>

\* A source.path that is truthy but no string, such as a number.
NotAString == <<"#number">>

OutsideJsp == <<"ext", "index.jsp">>
WsJava == <<"ws", "Some.java">>

\* vscode.workspace.workspaceFolders, as root paths.
WorkspaceFolders == << <<"ws">> >>

\* The lower-cased extension of a file name.
FileExt(name) ==
  CASE name = "index.jsp" -> "jsp"
    [] name = "header.jspf" -> "jspf"
    [] name \in {"index_jsp.java", "other_jsp.java", "Some.java", "menu_tag.java"} -> "java"
    [] OTHER -> ""

\* /_jsp\.java$/i and /_tag\.java$/i on a file name.
EndsWithJspJava(name) == name \in {"index_jsp.java", "other_jsp.java"}
EndsWithTagJava(name) == name \in {"menu_tag.java"}

\* path.basename
basename(p) == p[Len(p)]

\* p.includes('/org/apache/jsp/')
InJspPackage(p) ==
  \E i \in 1..(Len(p) - 3) : p[i] = "org" /\ p[i + 1] = "apache" /\ p[i + 2] = "jsp"

isJspLikeFile(sourcePath) == FileExt(basename(sourcePath)) \in {"jsp", "jspf", "tag"}

\* The breakpoint translator's heuristic (it also accepts *_tag.java).
isLikelyGeneratedJspServletSource(sourcePath) ==
  \/ InJspPackage(sourcePath) /\ FileExt(basename(sourcePath)) = "java"
  \/ EndsWithJspJava(basename(sourcePath))
  \/ EndsWithTagJava(basename(sourcePath))

\* The stack-frame rewriter's heuristic.
sfIsLikelyGeneratedJspServletSource(sourcePath) ==
  \/ InJspPackage(sourcePath) /\ FileExt(basename(sourcePath)) = "java"
  \/ EndsWithJspJava(basename(sourcePath))

\* abs.startsWith(dir + path.sep)
StartsWithDir(abs, dir) ==
  /\ Len(abs) > Len(dir)
  /\ SubSeq(abs, 1, Len(dir)) = dir

\* A plausible slip: the workspace check is left out.
isInWorkspace_Always(srcPath) == TRUE

\* The source lies inside a workspace folder.
isInWorkspace(srcPath) ==
  \E k \in 1..Len(WorkspaceFolders) : StartsWithDir(srcPath, WorkspaceFolders[k])

\* The (folder, webRoot) pairs in the order the nested loops visit them.
RootPairs(webRoots) ==
  [n \in 1..(Len(WorkspaceFolders) * Len(webRoots)) |->
     WorkspaceFolders[((n - 1) \div Len(webRoots)) + 1]
       \o webRoots[((n - 1) % Len(webRoots)) + 1]]

computePossibleMarkerJspRefs(jspAbsPath, webRootCandidates) ==
  LET roots == RootPairs(webRootCandidates)
      rels == {SubSeq(jspAbsPath, Len(roots[n]) + 1, Len(jspAbsPath)) :
                 n \in {k \in 1..Len(roots) : StartsWithDir(jspAbsPath, roots[k])}}
  IN {Ref(FALSE, rel, "/") : rel \in rels}
       \cup {Ref(TRUE, rel, "/") : rel \in rels}
       \cup {Ref(FALSE, <<basename(jspAbsPath)>>, "/")}

\* A cache keyed by strings: the entry under key, if any.
CacheGet(cache, key) == IF key \in DOMAIN cache THEN cache[key] ELSE None

\* Map.set on such a cache.
CacheSet(cache, key, entry) ==
  [k \in DOMAIN cache \cup {key} |-> IF k = key THEN Some(entry) ELSE cache[k]]

\* The first candidate path.join(root, webRoot, rel) that exists, from pair n on.
RECURSIVE FirstExisting(_, _, _, _)
FirstExisting(fs, roots, rel, n) ==
  IF n > Len(roots) THEN None
  ELSE IF existsSync(fs, roots[n] \o rel) THEN Some(roots[n] \o rel)
  ELSE FirstExisting(fs, roots, rel, n + 1)

\* The resolution with a memo that keeps only resolved references.
resolveWorkspaceJspPath_ForgetsUnresolved(jspRef, webRootCandidates, cache, cacheTtlMs, fs, t) ==
  LET normalized == NormalizeSlashes(jspRef)
      cached == CacheGet(cache, normalized)
      isAbsolute == jspRef.lead /\ jspRef.sep = "/"
      found == IF isAbsolute /\ existsSync(fs, jspRef.segs) THEN Some(jspRef.segs)
               ELSE FirstExisting(fs, RootPairs(webRootCandidates), normalized.segs, 1)
  IN IF cached # None /\ cacheTtlMs > 0 /\ t - Val(cached).checkedAtMs < cacheTtlMs
     THEN [path |-> Val(cached).resolvedPath, cache |-> cache]
     ELSE [path |-> found,
           cache |-> IF found = None THEN cache
                     ELSE CacheSet(cache, normalized,
                                   [checkedAtMs |-> t, resolvedPath |-> found])]

\* resolveWorkspaceJspPath: the resolved path and the cache it leaves.
resolveWorkspaceJspPath(jspRef, webRootCandidates, cache, cacheTtlMs, fs, t) ==
  LET normalized == NormalizeSlashes(jspRef)
      cached == CacheGet(cache, normalized)
      isAbsolute == jspRef.lead /\ jspRef.sep = "/"
      found == IF isAbsolute /\ existsSync(fs, jspRef.segs) THEN Some(jspRef.segs)
               ELSE FirstExisting(fs, RootPairs(webRootCandidates), normalized.segs, 1)
  IN IF cached # None /\ cacheTtlMs > 0 /\ t - Val(cached).checkedAtMs < cacheTtlMs
     THEN [path |-> Val(cached).resolvedPath, cache |-> cache]
     ELSE [path |-> found,
           cache |-> CacheSet(cache, normalized,
                              [checkedAtMs |-> t, resolvedPath |-> found])]

\* The order in which a directory walk yields the files below the work
\* directories.
WalkOrder == <<GenIndex, GenOther>>

\* walkFiles(rootDir): the existing files below rootDir. A directory of class
\* files, work/classes, is listed before the compiled sources; on disk it is
\* a record with the number of its files, which the recursive walk yields in
\* its place.
walkFiles(fs, rootDir) ==
  (IF StartsWithDir(<<"work", "classes">>, rootDir)
      /\ existsSync(fs, <<"work", "classes">>)
   THEN [k \in 1..Val(StatOf(fs, <<"work", "classes">>)).files |->
           <<"work", "classes", ToString(k)>>]
   ELSE <<>>)
    \o SelectSeq(WalkOrder, LAMBDA f : StartsWithDir(f, rootDir) /\ existsSync(fs, f))

\* The files all work directories yield, one directory after the other.
RECURSIVE WalkAll(_, _, _)
WalkAll(fs, workDirs, k) ==
  IF k > Len(workDirs) THEN <<>>
  ELSE walkFiles(fs, workDirs[k]) \o WalkAll(fs, workDirs, k + 1)

\* A plausible slip: any marker is taken for a match.
hasMatch_AnyMarker(markers, possibleRefs) == Len(markers) > 0

\* Whether some marker's reference is one of the possible refs.
hasMatch(markers, possibleRefs) ==
  \E i \in 1..Len(markers) :
    /\ markers[i].jspFile # None
    /\ NormalizeSlashes(Val(markers[i].jspFile)) \in possibleRefs

\* The scan loop of findGeneratedJavaForJspSource over files[i..]: the first
\* candidate with a matching marker, the marker cache the forced reads leave,
\* and the number of files that were looked at (those within the budget).
RECURSIVE ScanFiles(_, _, _, _, _, _)
RECURSIVE ScanRead(_, _, _, _, _, _)
\* The scan loop without the test of the file budget.
ScanFiles_NoBudget(files, i, filesScanned, possibleRefs, m, ctx) ==
  LET candidates ==
        {j \in i..Len(files) : /\ FileExt(basename(files[j])) = "java"
                               /\ isLikelyGeneratedJspServletSource(files[j])}
  IN IF candidates = {}
     THEN [found |-> None, map |-> m,
           examined |-> filesScanned + (Len(files) + 1 - i)]
     ELSE ScanRead(files, CHOOSE j \in candidates : \A k \in candidates : j <= k,
                   filesScanned + ((CHOOSE j \in candidates : \A k \in candidates : j <= k) - i),
                   possibleRefs, ctx,
                   readMarkers(m, ctx.fs, ctx.t, ctx.opts.debounce, ctx.opts.max,
                               files[CHOOSE j \in candidates : \A k \in candidates : j <= k],
                               TRUE))

\* The files from files[i] on are passed one by one, each counted, until the
\* count exceeds the budget: `last` is the last file within the budget, and
\* the files before the first candidate among them are skipped (continue).
ScanFiles(files, i, filesScanned, possibleRefs, m, ctx) ==
  LET withinBudget == i + (ctx.cfg.maxGeneratedFilesToScan - filesScanned) - 1
      last == IF withinBudget < Len(files) THEN withinBudget ELSE Len(files)
      candidates ==
        {j \in i..last : /\ FileExt(basename(files[j])) = "java"
                         /\ isLikelyGeneratedJspServletSource(files[j])}
  IN IF candidates = {}
     THEN [found |-> None, map |-> m, examined |-> filesScanned + (last + 1 - i)]
     ELSE ScanRead(files, CHOOSE j \in candidates : \A k \in candidates : j <= k,
                   filesScanned + ((CHOOSE j \in candidates : \A k \in candidates : j <= k) - i),
                   possibleRefs, ctx,
                   readMarkers(m, ctx.fs, ctx.t, ctx.opts.debounce, ctx.opts.max,
                               files[CHOOSE j \in candidates : \A k \in candidates : j <= k],
                               TRUE))

ScanRead(files, i, filesScanned, possibleRefs, ctx, r) ==
  IF r.result # None /\ Len(Val(r.result)) > 0 /\ hasMatch(Val(r.result), possibleRefs)
  THEN [found |-> Some(files[i]), map |-> r.map, examined |-> filesScanned + 1]
  ELSE ScanFiles(files, i + 1, filesScanned + 1, possibleRefs, r.map, ctx)

\* The end of findGeneratedJavaForJspSource: the scan's answer is cached.
LocatorAnswer(jspAbsPath, genCache, t, scan) ==
  [path |-> scan.found,
   genCache |-> CacheSet(genCache, jspAbsPath,
                         [checkedAtMs |-> t, generatedJavaPath |-> scan.found]),
   map |-> scan.map, walk |-> Some(scan.examined)]

\* findGeneratedJavaForJspSource: the compiled source, the locator cache and
\* the marker cache it leaves. ctx holds the settings, the file system, the
\* time and the marker cache's options.
\* The locator with a cache that never expires.
findGeneratedJavaForJspSource_NoExpiry(jspAbsPath, m, genCache, ctx) ==
  LET cached == CacheGet(genCache, jspAbsPath)
      possibleRefs ==
        {NormalizeSlashes(r) :
           r \in computePossibleMarkerJspRefs(jspAbsPath, ctx.cfg.webRoots)}
  IN IF cached # None
     THEN [path |-> Val(cached).generatedJavaPath, genCache |-> genCache, map |-> m,
           walk |-> None]
     ELSE LocatorAnswer(jspAbsPath, genCache, ctx.t,
                        ScanFiles(WalkAll(ctx.fs, ctx.cfg.tomcatWorkDirs, 1), 1, 0,
                                  possibleRefs, m, ctx))

findGeneratedJavaForJspSource(jspAbsPath, m, genCache, ctx) ==
  LET cached == CacheGet(genCache, jspAbsPath)
      possibleRefs ==
        {NormalizeSlashes(r) :
           r \in computePossibleMarkerJspRefs(jspAbsPath, ctx.cfg.webRoots)}
  IN IF /\ cached # None
        /\ ctx.cfg.generatedJavaPathCacheTtlMs > 0
        /\ ctx.t - Val(cached).checkedAtMs < ctx.cfg.generatedJavaPathCacheTtlMs
     THEN [path |-> Val(cached).generatedJavaPath, genCache |-> genCache, map |-> m,
           walk |-> None]
     ELSE LocatorAnswer(jspAbsPath, genCache, ctx.t,
                        ScanFiles(WalkAll(ctx.fs, ctx.cfg.tomcatWorkDirs, 1), 1, 0,
                                  possibleRefs, m, ctx))

\* --------------------------------------------------------------- messages

\* A debug-protocol message, reduced to the fields the interceptors look at:
\* seq, request_seq, arguments.source.path (path) and the breakpoints or
\* stack frames (items).
Message(type, command, success, seq, requestSeq, path, items) ==
  [type |-> type, command |-> command, success |-> success, seq |-> seq,
   request_seq |-> requestSeq, path |-> path, items |-> items]

\* A stack frame or a breakpoint with every field spelled out: its id, its
\* name (a breakpoint has none), its line, and its source's path, name and
\* sourceReference.
Frame(id, name, line, path, sourceName, sourceReference) ==
  [id |-> id, name |-> name, line |-> line, path |-> path,
   sourceName |-> sourceName, sourceReference |-> sourceReference]

\* A frame or breakpoint as an adapter reports it by default: the source is
\* named by the base name of its path.
Item(line, path) ==
  Frame(1, None, line, path,
        IF path = None THEN None ELSE Some(basename(Val(path))), None)

\* PendingSetBreakpoints
Pending(srcPath, generatedJavaPath) ==
  [originalSourcePath |-> srcPath, requestedSourcePath |-> srcPath,
   generatedJavaPath |-> generatedJavaPath]

\* Map.delete on a cache keyed by strings or numbers.
CacheDelete(cache, key) == [k \in (DOMAIN cache) \ {key} |-> cache[k]]

\* The for loop of tryRewriteSetBreakpointsRequest: each breakpoint whose line
\* is a number and translates gets the compiled line.
\* The loop with breakpoints that have no matching marker losing their line.
TranslateLines_ClearsUnmatched(items, markers, possibleRefs) ==
  [i \in 1..Len(items) |->
     IF items[i].line = None
     THEN items[i]
     ELSE [items[i] EXCEPT
             !.line = mapJspLineToJavaLine(markers, possibleRefs, Val(items[i].line))]]

TranslateLines(items, markers, possibleRefs) ==
  [i \in 1..Len(items) |->
     IF items[i].line = None
     THEN items[i]
     ELSE IF mapJspLineToJavaLine(markers, possibleRefs, Val(items[i].line)) = None
     THEN items[i]
     ELSE [items[i] EXCEPT
             !.line = mapJspLineToJavaLine(markers, possibleRefs, Val(items[i].line))]]

\* A plausible slip: the request counts as changed whatever the loop did.
didChangeAny_Always(items, markers, possibleRefs) == TRUE

\* didChangeAny after that loop.
didChangeAny(items, markers, possibleRefs) ==
  \E i \in 1..Len(items) :
    /\ items[i].line # None
    /\ mapJspLineToJavaLine(markers, possibleRefs, Val(items[i].line)) # None

\* What a request handler call leaves: the message, the caches, the pending
\* translations, the compiled source the locator named, and the number of
\* files its walk looked at (None when it made no walk).
RequestOutcome(message, m, genCache, pending, found) ==
  [message |-> message, map |-> m, genCache |-> genCache, pending |-> pending,
   found |-> found, walk |-> None]

\* tryRewriteSetBreakpointsRequest once the compiled source's markers are read.
RequestTranslate(message, srcPath, possibleRefs, pending, loc, r) ==
  IF r.result = None
  THEN RequestOutcome(message, r.map, loc.genCache, pending, loc.path)
  ELSE IF Len(Val(r.result)) = 0 \/ Len(message.items) = 0
  THEN RequestOutcome(message, r.map, loc.genCache, pending, loc.path)
  ELSE IF ~didChangeAny(message.items, Val(r.result), possibleRefs)
  THEN RequestOutcome(message, r.map, loc.genCache, pending, loc.path)
  ELSE RequestOutcome(
         [message EXCEPT
            !.path = loc.path,
            !.items = TranslateLines(message.items, Val(r.result), possibleRefs)],
         r.map, loc.genCache,
         IF message.seq # None
         THEN CacheSet(pending, Val(message.seq), Pending(srcPath, Val(loc.path)))
         ELSE pending,
         loc.path)

\* tryRewriteSetBreakpointsRequest once the locator has answered.
RequestLocated(message, srcPath, pending, ctx, loc) ==
  [ (IF loc.path = None
     THEN RequestOutcome(message, loc.map, loc.genCache, pending, None)
     ELSE RequestTranslate(message, srcPath,
                           computePossibleMarkerJspRefs(srcPath, ctx.cfg.webRoots),
                           pending, loc,
                           readMarkers(loc.map, ctx.fs, ctx.t, ctx.opts.debounce,
                                       ctx.opts.max, Val(loc.path), TRUE)))
      EXCEPT !.walk = loc.walk ]

tryRewriteSetBreakpointsRequest(message, m, genCache, pending, ctx) ==
  IF message.type # "request" \/ message.command # "setBreakpoints"
  THEN RequestOutcome(message, m, genCache, pending, None)
  ELSE IF message.path = None
  THEN RequestOutcome(message, m, genCache, pending, None)
  ELSE IF ~isJspLikeFile(Val(message.path)) \/ ~isInWorkspace(Val(message.path))
  THEN RequestOutcome(message, m, genCache, pending, None)
  ELSE RequestLocated(message, Val(message.path), pending, ctx,
                      findGeneratedJavaForJspSource(Val(message.path), m, genCache, ctx))

\* The compiled source a returned breakpoint is mapped with.
effectiveGeneratedPath(bp, generatedJavaPath) ==
  IF bp.path # None /\ isLikelyGeneratedJspServletSource(Val(bp.path))
  THEN Val(bp.path)
  ELSE generatedJavaPath

\* A plausible slip: the breakpoint's source is rewritten but not its line.
BreakpointResolved_PathOnly(i, st, jspLine, res) ==
  IF res.path = None
  THEN [st EXCEPT !.jspCache = res.cache]
  ELSE [st EXCEPT !.jspCache = res.cache, !.items[i].path = res.path]

\* The end of one round of the response loop: the template path is resolved.
BreakpointResolved(i, st, jspLine, res) ==
  IF res.path = None
  THEN [st EXCEPT !.jspCache = res.cache]
  ELSE [st EXCEPT !.jspCache = res.cache,
                  !.items[i].sourceName = Some(basename(Val(res.path))),
                  !.items[i].path = res.path,
                  !.items[i].line = Some(jspLine)]

\* One round of the response loop from mapJavaLineToJsp's answer on.
BreakpointMapped(i, st, ctx, mapped) ==
  IF mapped = None
  THEN st
  ELSE IF Val(mapped).jspLine = 0 \/ Val(mapped).jspFile = None
  THEN st
  ELSE BreakpointResolved(i, st, Val(mapped).jspLine,
                          resolveWorkspaceJspPath(Val(Val(mapped).jspFile),
                                                  ctx.cfg.webRoots, st.jspCache,
                                                  ctx.cfg.jspPathCacheTtlMs,
                                                  ctx.fs, ctx.t))

\* One round of the response loop from the effective markers on.
BreakpointRead(bp, i, st, ctx, r) ==
  IF r.result = None
  THEN [st EXCEPT !.map = r.map]
  ELSE IF Len(Val(r.result)) = 0
  THEN [st EXCEPT !.map = r.map]
  ELSE BreakpointMapped(i, [st EXCEPT !.map = r.map], ctx,
                        mapJavaLineToJsp(Val(r.result), Val(bp.line)))

\* One round of the for loop of tryRewriteSetBreakpointsResponse; st carries
\* the breakpoints as rewritten so far, the marker cache and the path cache.
RewriteBreakpoint(bp, i, generatedJavaPath, markers, st, ctx) ==
  IF bp.line = None
  THEN st
  ELSE BreakpointRead(bp, i, st, ctx,
         IF effectiveGeneratedPath(bp, generatedJavaPath) = generatedJavaPath
         THEN ReadOutcome(st.map, Some(markers), 0, 0, FALSE)
         ELSE readMarkers(st.map, ctx.fs, ctx.t, ctx.opts.debounce, ctx.opts.max,
                          effectiveGeneratedPath(bp, generatedJavaPath), TRUE))

RECURSIVE RewriteBreakpoints(_, _, _, _, _, _)
RewriteBreakpoints(items, i, generatedJavaPath, markers, st, ctx) ==
  IF i > Len(items) THEN st
  ELSE RewriteBreakpoints(items, i + 1, generatedJavaPath, markers,
                          RewriteBreakpoint(items[i], i, generatedJavaPath, markers,
                                            st, ctx),
                          ctx)

\* What a response handler call leaves.
ResponseOutcome(message, m, jspCache, pending) ==
  [message |-> message, map |-> m, jspCache |-> jspCache, pending |-> pending]

\* The end of tryRewriteSetBreakpointsResponse: the pending entry is dropped.
ResponseDone(message, pending, requestSeq, st) ==
  ResponseOutcome([message EXCEPT !.items = st.items], st.map, st.jspCache,
                  CacheDelete(pending, requestSeq))

\* tryRewriteSetBreakpointsResponse once the pending source's markers are read.
ResponseRead(message, jspCache, pending, requestSeq, generatedJavaPath, ctx, r) ==
  IF r.result = None
  THEN ResponseOutcome(message, r.map, jspCache, pending)
  ELSE IF Len(Val(r.result)) = 0
  THEN ResponseOutcome(message, r.map, jspCache, pending)
  ELSE ResponseDone(message, pending, requestSeq,
                    RewriteBreakpoints(message.items, 1, generatedJavaPath,
                                       Val(r.result),
                                       [items |-> message.items, map |-> r.map,
                                        jspCache |-> jspCache],
                                       ctx))

\* The response handler correlating a response without a pending translation
\* of its own with any pending translation there is.
tryRewriteSetBreakpointsResponse_AnyPending(message, m, jspCache, pending, ctx) ==
  IF \/ message.type # "response"
     \/ message.command # "setBreakpoints"
     \/ message.success # TRUE
     \/ message.request_seq = None
     \/ Len(message.items) = 0
     \/ \A k \in DOMAIN pending : pending[k] = None
  THEN ResponseOutcome(message, m, jspCache, pending)
  ELSE ResponseRead(message, jspCache, pending,
                    CHOOSE k \in DOMAIN pending : pending[k] # None,
                    Val(pending[CHOOSE k \in DOMAIN pending : pending[k] # None]).generatedJavaPath,
                    ctx,
                    readMarkers(m, ctx.fs, ctx.t, ctx.opts.debounce, ctx.opts.max,
                                Val(pending[CHOOSE k \in DOMAIN pending : pending[k] # None]).generatedJavaPath,
                                TRUE))

tryRewriteSetBreakpointsResponse(message, m, jspCache, pending, ctx) ==
  IF \/ message.type # "response"
     \/ message.command # "setBreakpoints"
     \/ message.success # TRUE
  THEN ResponseOutcome(message, m, jspCache, pending)
  ELSE IF message.request_seq = None
  THEN ResponseOutcome(message, m, jspCache, pending)
  ELSE IF CacheGet(pending, Val(message.request_seq)) = None
  THEN ResponseOutcome(message, m, jspCache, pending)
  ELSE IF Len(message.items) = 0
  THEN ResponseOutcome(message, m, jspCache, pending)
  ELSE ResponseRead(message, jspCache, pending, Val(message.request_seq),
                    Val(CacheGet(pending, Val(message.request_seq))).generatedJavaPath,
                    ctx,
                    readMarkers(m, ctx.fs, ctx.t, ctx.opts.debounce, ctx.opts.max,
                                Val(CacheGet(pending, Val(message.request_seq))).generatedJavaPath,
                                TRUE))

\* A plausible slip: the frame is built anew from the mapped line and path.
FrameResolved_Rebuilt(i, st, jspLine, res) ==
  IF res.path = None
  THEN [st EXCEPT !.jspCache = res.cache]
  ELSE [st EXCEPT !.jspCache = res.cache, !.items[i] = Item(Some(jspLine), res.path)]

\* The end of one round of the stack-frame loop: the template path is resolved.
FrameResolved(i, st, jspLine, res) ==
  IF res.path = None
  THEN [st EXCEPT !.jspCache = res.cache]
  ELSE [st EXCEPT !.jspCache = res.cache,
                  !.items[i].sourceName = Some(basename(Val(res.path))),
                  !.items[i].path = res.path,
                  !.items[i].line = Some(jspLine)]

\* One round of the stack-frame loop from mapJavaLineToJsp's answer on.
FrameMapped(i, st, ctx, mapped) ==
  IF mapped = None
  THEN st
  ELSE IF Val(mapped).jspFile = None
  THEN st
  ELSE FrameResolved(i, st, Val(mapped).jspLine,
                     resolveWorkspaceJspPath(Val(Val(mapped).jspFile), ctx.cfg.webRoots,
                                             st.jspCache, ctx.cfg.jspPathCacheTtlMs,
                                             ctx.fs, ctx.t))

\* One round of the stack-frame loop from the markers on.
FrameRead(frame, i, st, ctx, r) ==
  IF r.result = None
  THEN [st EXCEPT !.map = r.map]
  ELSE IF Len(Val(r.result)) = 0
  THEN [st EXCEPT !.map = r.map]
  ELSE FrameMapped(i, [st EXCEPT !.map = r.map], ctx,
                   mapJavaLineToJsp(Val(r.result), Val(frame.line)))

\* A plausible slip: no frame's read is forced.
RewriteFrame_NeverForces(frame, i, st, ctx) ==
  IF frame.path = None \/ frame.line = None
  THEN st
  ELSE IF ~sfIsLikelyGeneratedJspServletSource(Val(frame.path))
  THEN st
  ELSE FrameRead(frame, i,
                 [st EXCEPT !.forceStatForPathOnce = @ \cup {Val(frame.path)},
                            !.reads = Append(@, [path |-> Val(frame.path),
                                                 forceStat |-> FALSE])],
                 ctx,
                 readMarkers(st.map, ctx.fs, ctx.t, ctx.opts.debounce, ctx.opts.max,
                             Val(frame.path), FALSE))

\* A plausible slip: every frame's read is forced.
RewriteFrame_AlwaysForces(frame, i, st, ctx) ==
  IF frame.path = None \/ frame.line = None
  THEN st
  ELSE IF ~sfIsLikelyGeneratedJspServletSource(Val(frame.path))
  THEN st
  ELSE FrameRead(frame, i,
                 [st EXCEPT !.forceStatForPathOnce = @ \cup {Val(frame.path)},
                            !.reads = Append(@, [path |-> Val(frame.path),
                                                 forceStat |-> TRUE])],
                 ctx,
                 readMarkers(st.map, ctx.fs, ctx.t, ctx.opts.debounce, ctx.opts.max,
                             Val(frame.path), TRUE))

\* One round of the for loop of maybeRewriteStackTraceResponse; st carries the
\* frames as rewritten so far, the rewriter's caches, forceStatForPathOnce and
\* the marker reads made so far (path and forceStat of each).
RewriteFrame(frame, i, st, ctx) ==
  IF frame.path = None \/ frame.line = None
  THEN st
  ELSE IF Val(frame.path) = NotAString
  THEN \* sourcePath.replace is not a function
       [st EXCEPT !.thrown = TRUE]
  ELSE IF ~sfIsLikelyGeneratedJspServletSource(Val(frame.path))
  THEN st
  ELSE FrameRead(frame, i,
                 [st EXCEPT !.forceStatForPathOnce = @ \cup {Val(frame.path)},
                            !.reads = Append(@, [path |-> Val(frame.path),
                                                 forceStat |-> Val(frame.path) \notin
                                                   st.forceStatForPathOnce])],
                 ctx,
                 readMarkers(st.map, ctx.fs, ctx.t, ctx.opts.debounce, ctx.opts.max,
                             Val(frame.path),
                             Val(frame.path) \notin st.forceStatForPathOnce))

\* A plausible slip: the loop ends at the first frame it cannot rewrite.
RECURSIVE RewriteFrames_StopsAtFailure(_, _, _, _)
RewriteFrames_StopsAtFailure(items, i, st, ctx) ==
  IF i > Len(items) THEN st
  ELSE IF RewriteFrame(items[i], i, st, ctx).items = st.items
  THEN RewriteFrame(items[i], i, st, ctx)
  ELSE RewriteFrames_StopsAtFailure(items, i + 1, RewriteFrame(items[i], i, st, ctx), ctx)

RECURSIVE RewriteFrames(_, _, _, _)
RewriteFrames(items, i, st, ctx) ==
  IF i > Len(items) \/ st.thrown THEN st
  ELSE RewriteFrames(items, i + 1, RewriteFrame(items[i], i, st, ctx), ctx)

\* What a stack-trace handler call leaves: the message, the caches, the marker
\* reads made, the exception it throws and the exception its caller caught.
StackTraceOutcome(message, m, jspCache) ==
  [message |-> message, map |-> m, jspCache |-> jspCache, reads |-> <<>>,
   thrown |-> None, caught |-> None]

\* The end of maybeRewriteStackTraceResponse, by return or by exception.
StackTraceDone(message, st) ==
  [StackTraceOutcome([message EXCEPT !.items = st.items], st.map, st.jspCache)
     EXCEPT !.reads = st.reads,
            !.thrown = IF st.thrown THEN Some("TypeError") ELSE None]

maybeRewriteStackTraceResponse(message, m, jspCache, ctx) ==
  IF Len(message.items) = 0
  THEN StackTraceOutcome(message, m, jspCache)
  ELSE StackTraceDone(message,
                      RewriteFrames(message.items, 1,
                                    [items |-> message.items, map |-> m,
                                     jspCache |-> jspCache,
                                     forceStatForPathOnce |-> {}, reads |-> <<>>,
                                     thrown |-> FALSE],
                                    ctx))

\* A plausible slip: the callback has no try/catch.
TryCatch_Rethrows(outcome) == outcome

\* try { ... } catch (err) { output.appendLine(...) } around a callback's body.
TryCatch(outcome) == [outcome EXCEPT !.caught = outcome.thrown, !.thrown = None]

\* A plausible slip: the command of the response is not looked at.
sfOnDidSendMessage_AnyResponse(message, m, jspCache, ctx) ==
  TryCatch(IF message.type = "response" /\ message.success = TRUE
           THEN maybeRewriteStackTraceResponse(message, m, jspCache, ctx)
           ELSE StackTraceOutcome(message, m, jspCache))

\* The stack-frame rewriter's onDidSendMessage.
sfOnDidSendMessage(message, m, jspCache, ctx) ==
  TryCatch(IF /\ message.type = "response"
              /\ message.command = "stackTrace"
              /\ message.success = TRUE
           THEN maybeRewriteStackTraceResponse(message, m, jspCache, ctx)
           ELSE StackTraceOutcome(message, m, jspCache))

\* ------------------------------------------------- SpecMap: the line mappers

\* Bounds of the generated sources drawn: lines per file, template line numbers.
MaxLines == 3
MaxJspLine == 2

\* The template references a marker line may state.
MarkerFiles ==
  {None, Some(RefWebappIndex), Some(RefWebappIndexBs), Some(RefHeader)}

\* The lines a generated source is drawn from.
SourceLines ==
  {CodeLine}
  \cup {MarkerLine(IF f = None THEN "// line N" ELSE "// line N \"F\"", n, f) :
          n \in 1..MaxJspLine, f \in MarkerFiles}

Texts == UNION {[1..k -> SourceLines] : k \in 0..MaxLines}

\* The reference lists a template's path can give (computePossibleMarkerJspRefs).
RefLists ==
  { {RefWebappIndexRel, RefWebappIndex, RefIndexBase}, {RefHeader}, {} }

MapInit ==
  /\ markersIn \in {parseTomcatGeneratedJavaMarkers(t) : t \in Texts}
  /\ call = [op |-> "none", line |-> 0, refs |-> {}]
  /\ ret = None

\* The mappers are pure functions of their arguments: each drawn marker list
\* is given one call.
CallMapJavaLineToJsp ==
  \E javaLine \in 0..(MaxLines + 1) :
    /\ call.op = "none"
    /\ call' = [op |-> "mapJavaLineToJsp", line |-> javaLine, refs |-> {}]
    /\ ret' = mapJavaLineToJsp(markersIn, javaLine)
    /\ UNCHANGED markersIn

CallMapJspLineToJavaLine ==
  \E refs \in RefLists, jspLine \in 0..(MaxJspLine + 1) :
    /\ call.op = "none"
    /\ call' = [op |-> "mapJspLineToJavaLine", line |-> jspLine, refs |-> refs]
    /\ ret' = mapJspLineToJavaLine(markersIn, refs, jspLine)
    /\ UNCHANGED markersIn

\* --------------------------------------------- SpecCache: the marker cache

\* The clock stops at MaxNow.
MaxNow == 3

CachePaths == {GenIndex}

IndexMarker(n) == MarkerLine("// line N \"F\"", n, Some(RefWebappIndex))

\* Two texts of the same size with different markers, and one of another size.
TextV1 == <<CodeLine, IndexMarker(1), CodeLine>>
TextV2 == <<CodeLine, IndexMarker(2), CodeLine>>
TextV3 == <<IndexMarker(1), IndexMarker(2)>>

\* What a compile, an in-place write, an atomic replace, a utimes or a chmod can
\* leave at a path.
CacheFileVersions ==
  { File(TextV1, 1, Some(7), TRUE),
    File(TextV2, 1, Some(7), TRUE),
    File(TextV2, 1, Some(8), TRUE),
    File(TextV3, 1, Some(7), TRUE),
    File(TextV2, 2, Some(7), TRUE),
    File(TextV1, 1, None, TRUE),
    File(TextV2, 1, None, TRUE),
    File(TextV3, 2, Some(8), FALSE) }

NoOp ==
  [op |-> "none", path |-> <<>>, forceStat |-> FALSE, result |-> None,
   stats |-> 0, reads |-> 0, debounced |-> FALSE, existing |-> None,
   file |-> None, at |-> 0, before |-> <<>>, configured |-> None]

CacheInit ==
  /\ disk = [p \in CachePaths |-> NoFileOnDisk]
  /\ now = 0
  /\ map = <<>>
  /\ maxEntries \in {1, 2}
  /\ statDebounceMs \in {0, 2}
  /\ lastOp = NoOp

\* Time passes.
Tick ==
  /\ now < MaxNow
  /\ now' = now + 1
  /\ UNCHANGED <<disk, map, maxEntries, statDebounceMs, lastOp>>

\* The JSP engine (or anything else) writes or replaces a generated source.
WriteFile ==
  \E p \in CachePaths, f \in CacheFileVersions :
    /\ disk[p] # Some(f)
    /\ disk' = [disk EXCEPT ![p] = Some(f)]
    /\ UNCHANGED <<now, map, maxEntries, statDebounceMs, lastOp>>

DeleteFile ==
  \E p \in CachePaths :
    /\ disk[p] # NoFileOnDisk
    /\ disk' = [disk EXCEPT ![p] = NoFileOnDisk]
    /\ UNCHANGED <<now, map, maxEntries, statDebounceMs, lastOp>>

\* cache.readMarkersForGeneratedJavaFile(p, {forceStat})
CacheRead ==
  \E p \in CachePaths, forceStat \in BOOLEAN :
    LET r == readMarkers(map, disk, now, statDebounceMs, maxEntries, p, forceStat)
    IN /\ map' = r.map
       /\ lastOp' = [op |-> "read", path |-> p, forceStat |-> forceStat,
                     result |-> r.result, stats |-> r.stats, reads |-> r.reads,
                     debounced |-> r.debounced, existing |-> MapGet(map, p),
                     file |-> StatOf(disk, p), at |-> now, before |-> map,
                     configured |-> None]
       /\ UNCHANGED <<disk, now, maxEntries, statDebounceMs>>

\* cache.invalidate(p)
Invalidate ==
  \E p \in CachePaths :
    /\ map' = MapDelete(map, p)
    /\ lastOp' = [NoOp EXCEPT !.op = "invalidate", !.path = p]
    /\ UNCHANGED <<disk, now, maxEntries, statDebounceMs>>

\* cache.clear()
Clear ==
  /\ map' = <<>>
  /\ lastOp' = [NoOp EXCEPT !.op = "clear"]
  /\ UNCHANGED <<disk, now, maxEntries, statDebounceMs>>

\* cache.updateOptions({maxEntries, statDebounceMs})
UpdateOptions ==
  \E max \in {1, 2}, debounce \in {0, 2} :
    /\ maxEntries' = max
    /\ statDebounceMs' = debounce
    /\ map' = enforceMaxEntries(map, max)
    /\ lastOp' = [NoOp EXCEPT !.op = "updateOptions"]
    /\ UNCHANGED <<disk, now>>

\* ------------------------------- SpecLru: the cache holding several paths

\* The largest maxEntries a configuration asks for.
MaxConfigured == 3

GenThird == <<"work", "third_jsp.java">>

LruPaths == {GenIndex, GenOther, GenThird}

\* What can be found at each path: nothing, a first compile, a recompile with
\* another fingerprint, or a file that stats but cannot be read.
LruFilesAt(p) ==
  IF p = GenIndex
    THEN {NoFileOnDisk, Some(File(TextV1, 1, Some(7), TRUE)),
          Some(File(TextV2, 2, Some(7), TRUE)),
          Some(File(TextV3, 2, Some(8), FALSE))}
  ELSE IF p = GenOther
    THEN {NoFileOnDisk, Some(File(TextV1, 1, Some(5), TRUE)),
          Some(File(TextV3, 2, Some(6), FALSE))}
  ELSE {NoFileOnDisk, Some(File(TextV2, 1, Some(4), TRUE))}

\* new GeneratedJavaMarkerCache({maxEntries, statDebounceMs})
LruInit ==
  /\ disk = [p \in LruPaths |-> NoFileOnDisk]
  /\ now = 0
  /\ map = <<>>
  /\ \E configured \in 0 .. MaxConfigured :
       /\ maxEntries = MathMax(1, configured)
       /\ lastOp = [NoOp EXCEPT !.op = "construct", !.configured = Some(configured)]
  /\ \E configured \in {-1, 0, 1} : statDebounceMs = MathMax(0, configured)

LruWrite ==
  \E p \in LruPaths : \E f \in LruFilesAt(p) :
    /\ disk[p] # f
    /\ disk' = [disk EXCEPT ![p] = f]
    /\ UNCHANGED <<now, map, maxEntries, statDebounceMs, lastOp>>

\* cache.readMarkersForGeneratedJavaFile(p, {forceStat})
LruRead ==
  \E p \in LruPaths, forceStat \in BOOLEAN :
    \E r \in {readMarkers(map, disk, now, statDebounceMs, maxEntries, p, forceStat)} :
       /\ map' = r.map
       /\ lastOp' = [op |-> "read", path |-> p, forceStat |-> forceStat,
                     result |-> r.result, stats |-> r.stats, reads |-> r.reads,
                     debounced |-> r.debounced, existing |-> MapGet(map, p),
                     file |-> StatOf(disk, p), at |-> now, before |-> map,
                     configured |-> None]
       /\ UNCHANGED <<disk, now, maxEntries, statDebounceMs>>

\* cache.invalidate(p)
LruInvalidate ==
  \E p \in LruPaths :
    /\ map' = MapDelete(map, p)
    /\ lastOp' = [NoOp EXCEPT !.op = "invalidate", !.path = p, !.before = map]
    /\ UNCHANGED <<disk, now, maxEntries, statDebounceMs>>

\* cache.updateOptions(opts): an option that is not a number is left as it was.
LruUpdateOptions ==
  \E max \in {None} \cup {Some(n) : n \in 0 .. MaxConfigured},
     debounce \in {None, Some(-1), Some(0), Some(1)} :
    /\ maxEntries' = IF max # None THEN MathMax(1, Val(max)) ELSE maxEntries
    /\ statDebounceMs' =
         IF debounce # None THEN MathMax(0, Val(debounce)) ELSE statDebounceMs
    /\ map' = enforceMaxEntries(map, maxEntries')
    /\ lastOp' = [NoOp EXCEPT !.op = "updateOptions", !.before = map,
                                !.configured = max]
    /\ UNCHANGED <<disk, now>>

\* ------------------------------------- Spec: the two debug-adapter trackers

\* Messages delivered and file-system changes in one run.
MaxSteps == 3

BpPaths == {GenIndex, GenOther, JspIndex}

\* readSettings(): '.' and 'webapp' as web roots, one work directory.
DefaultSettings ==
  [enabled |-> TRUE,
   sfEnabled |-> TRUE,
   webRoots |-> << <<>>, <<"webapp">> >>,
   tomcatWorkDirs |-> << <<"work">> >>,
   maxGeneratedFilesToScan |-> 100,
   generatedJavaPathCacheTtlMs |-> 1,
   markerCacheMaxEntries |-> 2,
   markerCacheStatDebounceMs |-> 1,
   jspPathCacheTtlMs |-> 1]

\* Compiled sources of the template: one statement after a marker, two
\* adjacent markers, and no marker at all.
BpTextA == <<CodeLine, IndexMarker(2), CodeLine>>
BpTextB == <<IndexMarker(2), IndexMarker(1), CodeLine>>
BpTextC == <<CodeLine>>
OtherText == <<IndexMarker(1), CodeLine>>

\* What can be at each path; every compile leaves a new modification time.
FilesAt(p) ==
  IF p = GenIndex
  THEN {File(BpTextA, 1, Some(7), TRUE), File(BpTextB, 2, Some(7), TRUE),
        File(BpTextC, 3, Some(7), TRUE)}
  ELSE IF p = GenOther THEN {File(OtherText, 1, Some(8), TRUE)}
  ELSE {File(<<CodeLine>>, 1, Some(9), TRUE)}

\* A file at p, or none.
MaybeFileAt(p) == {NoFileOnDisk} \cup {Some(f) : f \in FilesAt(p)}

\* The markers of the file at p, when it can be read.
DiskMarkers(fs, p) ==
  IF existsSync(fs, p) /\ Val(StatOf(fs, p)).readable
  THEN Some(parseTomcatGeneratedJavaMarkers(Val(StatOf(fs, p)).text))
  ELSE None

Line(n) == Some(n)

\* setBreakpoints requests the editor sends, and one other request.
Requests ==
  {Message("request", "setBreakpoints", FALSE, Some(1), None, Some(JspIndex), ls) :
     ls \in { <<>>, <<Item(Line(1), None)>>, <<Item(Line(2), None)>>,
              <<Item(Line(1), None), Item(Line(2), None)>>,
              <<Item(None, None), Item(Line(2), None)>> }}
  \cup {Message("request", "setBreakpoints", FALSE, Some(2), None, Some(JspIndex),
                <<Item(Line(2), None)>>)}
  \cup {Message("request", "setBreakpoints", FALSE, Some(1), None, src,
                <<Item(Line(2), None)>>) :
          src \in {Some(OutsideJsp), Some(WsJava), None}}
  \cup {Message("request", "threads", FALSE, Some(1), None, Some(JspIndex),
                <<Item(Line(2), None)>>)}

\* setBreakpoints responses the adapter sends.
BreakpointResponses ==
  {Message("response", "setBreakpoints", TRUE, None, Some(1), None, bps) :
     bps \in { <<>>, <<Item(Line(2), None)>>, <<Item(Line(3), None)>>,
               <<Item(Line(2), Some(GenOther))>>,
               <<Item(Line(3), Some(WsJava)), Item(Line(1), Some(GenIndex))>>,
               <<Item(None, None), Item(Line(3), Some(GenIndex))>> }}
  \cup {Message("response", "setBreakpoints", TRUE, None, Some(2), None,
                <<Item(Line(3), None)>>)}
  \cup {Message("response", "setBreakpoints", FALSE, None, Some(1), None,
                <<Item(Line(3), None)>>)}
  \cup {Message("response", "setBreakpoints", TRUE, None, None, None,
                <<Item(Line(3), None)>>)}

\* stackTrace responses the adapter sends.
StackTraceResponses ==
  {Message("response", "stackTrace", TRUE, None, Some(1), None, frames) :
     frames \in { <<>>, <<Item(Line(3), Some(GenIndex))>>,
                  <<Item(Line(2), Some(GenIndex)), Item(Line(3), Some(GenIndex))>>,
                  <<Item(Line(2), Some(GenOther)), Item(Line(1), Some(WsJava))>>,
                  <<Item(None, Some(GenIndex)), Item(Line(1), None)>> }}
  \cup {Message("response", "stackTrace", FALSE, None, Some(1), None,
                <<Item(Line(3), Some(GenIndex))>>)}

NoMessage == Message("none", "none", FALSE, None, None, None, <<>>)

\* No message handled since the last change of the surroundings.
NotHandled ==
  [by |-> "none", in |-> NoMessage, out |-> NoMessage, found |-> None,
   pendingBefore |-> <<>>, jspCacheBefore |-> <<>>, sfJspCacheBefore |-> <<>>,
   session |-> 0, mapBefore |-> <<>>, genCacheBefore |-> <<>>,
   sfMapBefore |-> <<>>, reads |-> <<>>, mid |-> NoMessage, walk |-> None,
   caught |-> None, escaped |-> None, afterCaught |-> FALSE,
   configBefore |-> None]

\* The debug sessions running at the same time; createDebugAdapterTracker is
\* called once for each.
Sessions == {1, 2}

\* A plausible slip: the tracker gets its callbacks whatever the settings say.
createDebugAdapterTracker_Always(cfg) ==
  [bp |-> TRUE, sf |-> TRUE, createdWith |-> cfg]

\* createDebugAdapterTracker of both factories: whether the translator's
\* tracker (bp) and the stack-frame rewriter's tracker (sf) of a session have
\* callbacks (with the feature disabled the factory returns {}), and for the
\* record the settings they were created under.
createDebugAdapterTracker(cfg) ==
  [bp |-> cfg.enabled, sf |-> cfg.sfEnabled, createdWith |-> cfg]

\* registerJavaBreakpointTranslator and registerJavaStackFrameRewriter have run.
DebugInit ==
  /\ \E gi \in MaybeFileAt(GenIndex), go \in MaybeFileAt(GenOther),
        jsp \in MaybeFileAt(JspIndex) :
       disk = [p \in BpPaths |->
                 IF p = GenIndex THEN gi ELSE IF p = GenOther THEN go ELSE jsp]
  /\ now = 0
  /\ settings = DefaultSettings
  /\ map = <<>>
  /\ maxEntries = DefaultSettings.markerCacheMaxEntries
  /\ statDebounceMs = DefaultSettings.markerCacheStatDebounceMs
  /\ lastOp = NoOp
  /\ generatedJavaPathCache = <<>>
  /\ jspPathCache = <<>>
  /\ pendingByRequestSeq = <<>>
  /\ sfMap = <<>>
  /\ sfJspPathCache = <<>>
  /\ trackers = [session \in Sessions |-> createDebugAdapterTracker(DefaultSettings)]
  /\ sent = <<>>
  /\ handled = NotHandled
  /\ steps = 0

trackerVars ==
  <<map, generatedJavaPathCache, jspPathCache, pendingByRequestSeq, sfMap,
    sfJspPathCache, trackers, sent>>

\* Time passes.
Elapse ==
  /\ steps < MaxSteps
  /\ steps' = steps + 1
  /\ now' = now + 1
  /\ handled' = NotHandled
  /\ UNCHANGED <<disk, settings, maxEntries, statDebounceMs, lastOp>>
  /\ UNCHANGED trackerVars

\* The JSP engine compiles, or the user saves the template.
Recompile ==
  \E p \in BpPaths :
    \E f \in FilesAt(p) :
      /\ steps < MaxSteps
      /\ disk[p] # Some(f)
      /\ steps' = steps + 1
      /\ disk' = [disk EXCEPT ![p] = Some(f)]
      /\ handled' = NotHandled
      /\ UNCHANGED <<now, settings, maxEntries, statDebounceMs, lastOp>>
      /\ UNCHANGED trackerVars

\* A compiled source or the template is removed.
RemoveFile ==
  \E p \in BpPaths :
    /\ steps < MaxSteps
    /\ disk[p] # NoFileOnDisk
    /\ steps' = steps + 1
    /\ disk' = [disk EXCEPT ![p] = NoFileOnDisk]
    /\ handled' = NotHandled
    /\ UNCHANGED <<now, settings, maxEntries, statDebounceMs, lastOp>>
    /\ UNCHANGED trackerVars

\* What a handler works with: the settings, the file system, the time and the
\* options the marker caches were built with.
Context ==
  [cfg |-> settings, fs |-> disk, t |-> now,
   opts |-> [debounce |-> statDebounceMs, max |-> maxEntries]]

\* onWillReceiveMessage of the breakpoint translator's tracker, called by the
\* tracker of one session; every tracker works on the same caches.
WillReceive(message, session) ==
  \E r \in {IF trackers[session].bp
             THEN tryRewriteSetBreakpointsRequest(message, map, generatedJavaPathCache,
                                                  pendingByRequestSeq, Context)
             ELSE RequestOutcome(message, map, generatedJavaPathCache,
                                 pendingByRequestSeq, None)} :
    /\ steps < MaxSteps
    /\ steps' = steps + 1
    /\ map' = r.map
    /\ generatedJavaPathCache' = r.genCache
    /\ pendingByRequestSeq' = r.pending
    /\ sent' = IF r.message # message /\ message.seq # None
               THEN CacheSet(sent, Val(message.seq),
                             [lines |-> message.items,
                              markers |-> DiskMarkers(disk, Val(r.found)),
                              refs |-> computePossibleMarkerJspRefs(
                                         Val(message.path), settings.webRoots),
                              generatedJavaPath |-> Val(r.found),
                              session |-> session])
               ELSE sent
    /\ handled' = [by |-> "onWillReceiveMessage", in |-> message, out |-> r.message,
                   found |-> r.found, pendingBefore |-> pendingByRequestSeq,
                   jspCacheBefore |-> jspPathCache,
                   sfJspCacheBefore |-> sfJspPathCache,
                   session |-> session, mapBefore |-> map,
                   genCacheBefore |-> generatedJavaPathCache,
                   sfMapBefore |-> sfMap, reads |-> <<>>, mid |-> r.message,
                   walk |-> r.walk, caught |-> None, escaped |-> None,
                   afterCaught |-> handled.caught # None,
                   configBefore |-> handled.configBefore]
    /\ UNCHANGED <<disk, now, settings, maxEntries, statDebounceMs, lastOp,
                   jspPathCache, sfMap, sfJspPathCache, trackers>>

OnWillReceiveMessage == \E message \in Requests : WillReceive(message, 1)

\* onDidSendMessage of both trackers of one session: each gets every message
\* of the adapter.
DidSend(message, session) ==
  \E r \in {IF trackers[session].bp
             THEN tryRewriteSetBreakpointsResponse(message, map, jspPathCache,
                                                   pendingByRequestSeq, Context)
             ELSE ResponseOutcome(message, map, jspPathCache, pendingByRequestSeq)} :
    \E f \in {IF trackers[session].sf
               THEN sfOnDidSendMessage(r.message, sfMap, sfJspPathCache, Context)
               ELSE StackTraceOutcome(r.message, sfMap, sfJspPathCache)} :
      /\ steps < MaxSteps
      /\ steps' = steps + 1
      /\ map' = r.map
      /\ jspPathCache' = r.jspCache
      /\ pendingByRequestSeq' = r.pending
      /\ sfMap' = f.map
      /\ sfJspPathCache' = f.jspCache
      /\ handled' = [by |-> "onDidSendMessage", in |-> message, out |-> f.message,
                     found |-> None, pendingBefore |-> pendingByRequestSeq,
                     jspCacheBefore |-> jspPathCache,
                     sfJspCacheBefore |-> sfJspPathCache,
                     session |-> session, mapBefore |-> map,
                     genCacheBefore |-> generatedJavaPathCache,
                     sfMapBefore |-> sfMap, reads |-> f.reads,
                     mid |-> r.message, walk |-> None, caught |-> f.caught,
                     escaped |-> f.thrown,
                     afterCaught |-> handled.caught # None,
                     configBefore |-> handled.configBefore]
      /\ UNCHANGED <<disk, now, settings, maxEntries, statDebounceMs, lastOp,
                     generatedJavaPathCache, trackers, sent>>

OnDidSendMessage ==
  \E message \in BreakpointResponses \cup StackTraceResponses : DidSend(message, 1)

\* --------------------- SpecShapes: the trackers and messages of every shape

\* A compiled source whose first marker names no file and whose second names a
\* template that is not in the workspace.
ShapeTextBare ==
  <<MarkerLine("// line N", 1, None), CodeLine,
    MarkerLine("// line N \"F\"", 1, Some(RefHeader)), CodeLine>>

\* A compiled source whose marker names the template by its file name only.
ShapeTextBase == <<MarkerLine("// line N \"F\"", 1, Some(RefIndexBase)), CodeLine>>

\* What can be at each path; a recompile keeps the size and moves the marker.
ShapeFilesAt(p) ==
  IF p = GenIndex
  THEN {File(TextV2, 1, Some(7), TRUE), File(TextV1, 2, Some(7), TRUE),
        File(ShapeTextBare, 3, Some(7), TRUE),
        \* a marker naming the template, then a marker naming no file
        File(<<IndexMarker(1), MarkerLine("// line N", 2, None), CodeLine, CodeLine>>,
             4, Some(7), TRUE)}
  ELSE IF p = GenOther THEN {File(ShapeTextBase, 1, Some(8), TRUE)}
  ELSE {File(<<CodeLine>>, 1, Some(9), TRUE)}

\* Requests of the editor: setBreakpoints on the template, on a template
\* outside the workspace, on a Java file and without a path, and another
\* command.
ShapeRequests ==
  {Message("request", "setBreakpoints", FALSE, Some(1), None, src,
           <<Item(Line(1), None)>>) :
     src \in {Some(JspIndex), Some(OutsideJsp), Some(WsJava), None}}
  \cup {Message("request", "threads", FALSE, Some(1), None, Some(JspIndex),
                <<Item(Line(1), None)>>)}

\* Stack frames: on compiled sources, on a Java file, without a numeric line.
ShapeFrames ==
  { <<Item(Line(3), Some(GenIndex))>>,
    <<Item(Line(1), Some(GenIndex)), Item(Line(3), Some(GenIndex))>>,
    <<Item(Line(3), Some(GenIndex)), Item(Line(2), Some(GenOther)),
      Item(Line(2), Some(GenIndex))>>,
    <<Item(Line(1), Some(WsJava)), Item(Line(3), Some(GenIndex))>>,
    <<Item(None, Some(GenIndex)), Item(Line(3), Some(GenIndex)),
      Item(Line(3), None)>>,
    <<Item(Line(4), Some(GenIndex)), Item(Line(2), Some(GenOther))>>,
    <<Item(Line(2), Some(GenIndex)), Item(Line(1), Some(GenOther))>> }

\* Messages of the adapter: stackTrace responses, and messages that are no
\* successful stackTrace response but carry a frame all the same.
ShapeFromAdapter ==
  {Message("response", "stackTrace", TRUE, None, Some(1), None, frames) :
     frames \in ShapeFrames \cup {<<>>}}
  \cup {Message("response", "stackTrace", FALSE, None, Some(1), None,
                <<Item(Line(3), Some(GenIndex))>>),
        Message("response", "threads", TRUE, None, Some(1), None,
                <<Item(Line(3), Some(GenIndex))>>),
        Message("event", "stackTrace", TRUE, None, Some(1), None,
                <<Item(Line(3), Some(GenIndex))>>),
        Message("response", "setBreakpoints", TRUE, None, Some(1), None,
                <<Item(Line(3), Some(GenIndex))>>),
        Message("response", "setBreakpoints", FALSE, None, Some(1), None,
                <<Item(Line(3), Some(GenIndex))>>)}

ShapeInit ==
  /\ \E gi \in {NoFileOnDisk} \cup {Some(f) : f \in ShapeFilesAt(GenIndex)} :
       disk = [p \in BpPaths |->
                 IF p = GenIndex THEN gi
                 ELSE Some(CHOOSE f \in ShapeFilesAt(p) : TRUE)]
  /\ now = 0
  /\ map = <<>>
  /\ maxEntries = DefaultSettings.markerCacheMaxEntries
  /\ statDebounceMs = DefaultSettings.markerCacheStatDebounceMs
  /\ lastOp = NoOp

\* The JSP engine compiles.
ShapeRecompile ==
  \E p \in BpPaths :
    \E f \in ShapeFilesAt(p) :
      /\ steps < MaxSteps
      /\ disk[p] # Some(f)
      /\ steps' = steps + 1
      /\ disk' = [disk EXCEPT ![p] = Some(f)]
      /\ handled' = NotHandled
      /\ UNCHANGED <<now, settings, maxEntries, statDebounceMs, lastOp>>
      /\ UNCHANGED trackerVars

\* ---------------------------------------------------------- specifications

MapIdle ==
  /\ markersIn = <<>>
  /\ call = [op |-> "none", line |-> 0, refs |-> {}]
  /\ ret = None

CacheIdle ==
  /\ disk = [p \in CachePaths |-> NoFileOnDisk]
  /\ now = 0
  /\ map = <<>>
  /\ maxEntries = 1
  /\ statDebounceMs = 0
  /\ lastOp = NoOp

DebugIdle ==
  /\ settings = DefaultSettings
  /\ generatedJavaPathCache = <<>>
  /\ jspPathCache = <<>>
  /\ pendingByRequestSeq = <<>>
  /\ sfMap = <<>>
  /\ sfJspPathCache = <<>>
  /\ trackers = [session \in Sessions |-> createDebugAdapterTracker(DefaultSettings)]
  /\ sent = <<>>
  /\ handled = NotHandled
  /\ steps = 0

SpecMapInit == MapInit /\ CacheIdle /\ DebugIdle

SpecMapNext ==
  \/ CallMapJavaLineToJsp /\ UNCHANGED cacheVars /\ UNCHANGED debugVars
  \/ CallMapJspLineToJavaLine /\ UNCHANGED cacheVars /\ UNCHANGED debugVars

SpecMap == SpecMapInit /\ [][SpecMapNext]_vars

\* Marker lists sorted non-decreasingly by javaLine, several markers of one
\* javaLine included, as a caller of the exported mappers may pass them.
SpecDupInit ==
  /\ markersIn \in
       { s \in UNION {[1..k -> {Marker(j, n, Some(RefWebappIndex)) :
                                  j \in 1..MaxLines, n \in 1..MaxJspLine}] :
                       k \in 0..MaxLines} :
           \A i \in 1..(Len(s) - 1) : s[i].javaLine <= s[i + 1].javaLine }
  /\ call = [op |-> "none", line |-> 0, refs |-> {}]
  /\ ret = None
  /\ CacheIdle
  /\ DebugIdle

SpecDup == SpecDupInit /\ [][SpecMapNext]_vars

\* Generated sources of up to MaxLines lines, each line code or a marker
\* comment in one of the five forms, parsed by the first read of the cache.
SpecParseInit ==
  /\ \E t \in UNION {[1..k ->
                        {CodeLine} \cup
                        {MarkerLine(Patterns[f].form, n,
                                    IF Patterns[f].fileGroup
                                    THEN Some(RefWebappIndex) ELSE None) :
                           f \in 1..Len(Patterns), n \in 1..MaxJspLine}] :
                      k \in 0..MaxLines} :
       disk = [p \in CachePaths |-> Some(File(t, 1, Some(7), TRUE))]
  /\ now = 0
  /\ map = <<>>
  /\ maxEntries = 1
  /\ statDebounceMs = 0
  /\ lastOp = NoOp
  /\ MapIdle
  /\ DebugIdle

SpecParse ==
  SpecParseInit /\ [][CacheRead /\ UNCHANGED pureVars /\ UNCHANGED debugVars]_vars

\* ------------------------ SpecConfig: settings changes and new sessions

\* What readSettings can return: the defaults, either feature switched off,
\* another web root and no work directory, the work directory named twice (by
\* the setting and by CATALINA_BASE), caches switched off, and longer TTLs
\* with a marker cache of one entry that always stats.
ConfigChoices ==
  { DefaultSettings,
    [DefaultSettings EXCEPT !.enabled = FALSE],
    [DefaultSettings EXCEPT !.sfEnabled = FALSE],
    [DefaultSettings EXCEPT !.webRoots = << <<"other">> >>,
                            !.tomcatWorkDirs = <<>>],
    [DefaultSettings EXCEPT !.tomcatWorkDirs = << <<"work">>, <<"work">> >>],
    [DefaultSettings EXCEPT !.generatedJavaPathCacheTtlMs = 0,
                            !.jspPathCacheTtlMs = 0],
    [DefaultSettings EXCEPT !.generatedJavaPathCacheTtlMs = 2,
                            !.jspPathCacheTtlMs = 2,
                            !.markerCacheMaxEntries = 1,
                            !.markerCacheStatDebounceMs = 0] }

\* onDidChangeConfiguration for a change below jsp.debug: the translator's
\* listener always runs, the stack-frame rewriter's when a key below
\* jsp.debug.stackFrameRewrite has another value.
\* The change listener without pendingByRequestSeq.clear().
ConfigChange_KeepsPending ==
  \E new \in ConfigChoices :
    /\ steps < MaxSteps
    /\ steps' = steps + 1
    /\ settings' = new
    /\ maxEntries' = new.markerCacheMaxEntries
    /\ statDebounceMs' = new.markerCacheStatDebounceMs
    /\ map' = enforceMaxEntries(map, new.markerCacheMaxEntries)
    /\ jspPathCache' = <<>>
    /\ generatedJavaPathCache' = <<>>
    /\ pendingByRequestSeq' = pendingByRequestSeq
    /\ IF \/ settings.sfEnabled # new.sfEnabled
          \/ settings.webRoots # new.webRoots
          \/ settings.markerCacheMaxEntries # new.markerCacheMaxEntries
          \/ settings.markerCacheStatDebounceMs # new.markerCacheStatDebounceMs
          \/ settings.jspPathCacheTtlMs # new.jspPathCacheTtlMs
       THEN /\ sfMap' = enforceMaxEntries(sfMap, new.markerCacheMaxEntries)
            /\ sfJspPathCache' = <<>>
       ELSE UNCHANGED <<sfMap, sfJspPathCache>>
    /\ handled' = [NotHandled EXCEPT !.by = "configListener",
                                     !.configBefore = Some(settings)]
    /\ UNCHANGED <<disk, now, lastOp, trackers, sent>>

ConfigChange ==
  \E new \in ConfigChoices :
    /\ steps < MaxSteps
    /\ steps' = steps + 1
    /\ settings' = new
    /\ maxEntries' = new.markerCacheMaxEntries
    /\ statDebounceMs' = new.markerCacheStatDebounceMs
    /\ map' = enforceMaxEntries(map, new.markerCacheMaxEntries)
    /\ jspPathCache' = <<>>
    /\ generatedJavaPathCache' = <<>>
    /\ pendingByRequestSeq' = <<>>
    /\ IF \/ settings.sfEnabled # new.sfEnabled
          \/ settings.webRoots # new.webRoots
          \/ settings.markerCacheMaxEntries # new.markerCacheMaxEntries
          \/ settings.markerCacheStatDebounceMs # new.markerCacheStatDebounceMs
          \/ settings.jspPathCacheTtlMs # new.jspPathCacheTtlMs
       THEN /\ sfMap' = enforceMaxEntries(sfMap, new.markerCacheMaxEntries)
            /\ sfJspPathCache' = <<>>
       ELSE UNCHANGED <<sfMap, sfJspPathCache>>
    /\ handled' = [NotHandled EXCEPT !.by = "configListener",
                                     !.configBefore = Some(settings)]
    /\ UNCHANGED <<disk, now, lastOp, trackers, sent>>

\* A debug session starts: both factories create its trackers.
StartSession ==
  /\ trackers' = [trackers EXCEPT ![1] = createDebugAdapterTracker(settings)]
  /\ trackers' # trackers
  /\ handled' = NotHandled
  /\ UNCHANGED <<disk, now, map, maxEntries, statDebounceMs, lastOp, settings,
                 generatedJavaPathCache, jspPathCache, pendingByRequestSeq, sfMap,
                 sfJspPathCache, sent, steps>>

\* The work directory holds the two compiled sources, which both name the
\* template, with or without a directory of class files.
SpecConfigInit ==
  /\ \E classes \in {NoFileOnDisk, Some([files |-> 60])} :
       disk = [p \in BpPaths \cup {<<"work", "classes">>} |->
                 IF p = <<"work", "classes">> THEN classes
                 ELSE IF p = GenIndex THEN Some(File(TextV1, 2, Some(7), TRUE))
                 ELSE IF p = GenOther THEN Some(File(ShapeTextBase, 1, Some(8), TRUE))
                 ELSE Some(File(<<CodeLine>>, 1, Some(9), TRUE))]
  /\ now = 0
  /\ map = <<>>
  /\ maxEntries = DefaultSettings.markerCacheMaxEntries
  /\ statDebounceMs = DefaultSettings.markerCacheStatDebounceMs
  /\ lastOp = NoOp
  /\ DebugIdle
  /\ MapIdle

SpecConfigNext ==
  \/ Elapse /\ UNCHANGED pureVars
  \/ ShapeRecompile /\ UNCHANGED pureVars
  \/ RemoveFile /\ UNCHANGED pureVars
  \/ ConfigChange /\ UNCHANGED pureVars
  \/ StartSession /\ UNCHANGED pureVars
  \/ /\ \E src \in {JspIndex, <<"ws", "WEB-INF", "header.jspf">>} :
          WillReceive(Message("request", "setBreakpoints", FALSE, Some(1), None,
                              Some(src),
                              <<Item(Line(1), None), Item(Line(2), None)>>), 1)
     /\ UNCHANGED pureVars
  \/ /\ \E message \in
            { Message("response", "setBreakpoints", TRUE, None, Some(1), None,
                      <<Item(Line(3), Some(GenIndex))>>),
              Message("response", "setBreakpoints", TRUE, None, Some(2), None,
                      <<Item(Line(3), Some(GenIndex))>>),
              Message("response", "stackTrace", TRUE, None, Some(1), None,
                      <<Item(Line(3), Some(GenIndex))>>),
              Message("response", "stackTrace", TRUE, None, Some(1), None,
                      <<Item(Line(3), Some(GenIndex)), Item(Line(1), Some(NotAString)),
                        Item(Line(2), Some(GenOther))>>) } :
          DidSend(message, 1)
     /\ UNCHANGED pureVars

SpecConfig == SpecConfigInit /\ [][SpecConfigNext]_vars

\* ------------------- SpecLocate: the locator over differing work directories

\* A compiled source whose marker states the template with backslashes.
LocateTextBs == <<MarkerLine("// line N \"F\"", 1, Some(RefWebappIndexBs)), CodeLine>>

\* The work directory holds up to two compiled sources: the first names the
\* template, another template, or the template with backslashes, or is
\* missing; the second names the template by its file name or with
\* backslashes.
SpecLocateInit ==
  /\ \E gi \in {NoFileOnDisk, Some(File(LocateTextBs, 5, Some(7), TRUE))}
                 \cup {Some(f) : f \in ShapeFilesAt(GenIndex)},
        go \in {Some(File(ShapeTextBase, 1, Some(8), TRUE)),
                Some(File(LocateTextBs, 2, Some(8), TRUE))} :
       disk = [p \in BpPaths \cup {<<"work", "classes">>} |->
                 IF p = <<"work", "classes">> THEN NoFileOnDisk
                 ELSE IF p = GenIndex THEN gi
                 ELSE IF p = GenOther THEN go
                 ELSE Some(File(<<CodeLine>>, 1, Some(9), TRUE))]
  /\ now = 0
  /\ map = <<>>
  /\ maxEntries = DefaultSettings.markerCacheMaxEntries
  /\ statDebounceMs = DefaultSettings.markerCacheStatDebounceMs
  /\ lastOp = NoOp
  /\ DebugIdle
  /\ MapIdle

SpecLocateNext ==
  \/ Elapse /\ UNCHANGED pureVars
  \/ ShapeRecompile /\ UNCHANGED pureVars
  \/ RemoveFile /\ UNCHANGED pureVars
  \/ /\ \E src \in {JspIndex, <<"ws", "WEB-INF", "header.jspf">>} :
          WillReceive(Message("request", "setBreakpoints", FALSE, Some(1), None,
                              Some(src), <<Item(Line(1), None)>>), 1)
     /\ UNCHANGED pureVars

SpecLocate == SpecLocateInit /\ [][SpecLocateNext]_vars

\* ------------------- SpecFrames: stack traces with every field of a frame

\* The frames of the rewriter's test (an id, a name, a line, a source with a
\* path only), a frame of a Java file with a named source, and frames whose
\* source carries a name and a sourceReference.
FramesInFull ==
  { << Frame(1, Some("frame-1"), Line(3), Some(GenIndex), None, None),
       Frame(2, Some("frame-2"), Line(2), Some(GenOther), None, None) >>,
    << Frame(1, Some("frame-1"), Line(3), Some(GenIndex), Some("index_jsp.java"), Some(0)),
       Frame(2, Some("frame-2"), Line(1), Some(WsJava), Some("Some.java"), Some(0)),
       Frame(3, Some("frame-3"), Line(2), Some(GenOther), Some("_jspService"), Some(7)) >>,
    << Frame(4, None, Line(1), Some(GenIndex), Some("index.jsp"), None),
       Frame(5, Some("frame-5"), None, Some(GenIndex), None, Some(7)) >> }

SpecFramesInit == ShapeInit /\ DebugIdle /\ MapIdle

SpecFramesNext ==
  \/ Elapse /\ UNCHANGED pureVars
  \/ ShapeRecompile /\ UNCHANGED pureVars
  \/ RemoveFile /\ UNCHANGED pureVars
  \/ /\ \E frames \in FramesInFull, seq \in {None, Some(1)} :
          DidSend(Message("response", "stackTrace", TRUE, seq, Some(1), None, frames), 1)
     /\ UNCHANGED pureVars

SpecFrames == SpecFramesInit /\ [][SpecFramesNext]_vars

SpecCacheInit == CacheInit /\ MapIdle /\ DebugIdle

SpecCacheNext ==
  \/ Tick /\ UNCHANGED pureVars /\ UNCHANGED debugVars
  \/ WriteFile /\ UNCHANGED pureVars /\ UNCHANGED debugVars
  \/ DeleteFile /\ UNCHANGED pureVars /\ UNCHANGED debugVars
  \/ CacheRead /\ UNCHANGED pureVars /\ UNCHANGED debugVars
  \/ Invalidate /\ UNCHANGED pureVars /\ UNCHANGED debugVars
  \/ Clear /\ UNCHANGED pureVars /\ UNCHANGED debugVars
  \/ UpdateOptions /\ UNCHANGED pureVars /\ UNCHANGED debugVars

SpecCache == SpecCacheInit /\ [][SpecCacheNext]_vars

SpecLruInit == LruInit /\ MapIdle /\ DebugIdle

SpecLruNext ==
  \/ LruWrite /\ UNCHANGED pureVars /\ UNCHANGED debugVars
  \/ LruRead /\ UNCHANGED pureVars /\ UNCHANGED debugVars
  \/ LruInvalidate /\ UNCHANGED pureVars /\ UNCHANGED debugVars
  \/ Clear /\ UNCHANGED pureVars /\ UNCHANGED debugVars
  \/ LruUpdateOptions /\ UNCHANGED pureVars /\ UNCHANGED debugVars

SpecLru == SpecLruInit /\ [][SpecLruNext]_vars

SpecShapesInit == ShapeInit /\ DebugIdle /\ MapIdle

SpecShapesNext ==
  \/ Elapse /\ UNCHANGED pureVars
  \/ ShapeRecompile /\ UNCHANGED pureVars
  \/ RemoveFile /\ UNCHANGED pureVars
  \/ (\E message \in ShapeRequests, session \in Sessions :
        WillReceive(message, session)) /\ UNCHANGED pureVars
  \/ (\E message \in ShapeFromAdapter, session \in Sessions :
        DidSend(message, session)) /\ UNCHANGED pureVars

SpecShapes == SpecShapesInit /\ [][SpecShapesNext]_vars

\* The debug session: the editor's requests, the adapter's responses, and the
\* files changing underneath.
Init == DebugInit /\ MapIdle

Next ==
  \/ Elapse /\ UNCHANGED pureVars
  \/ Recompile /\ UNCHANGED pureVars
  \/ RemoveFile /\ UNCHANGED pureVars
  \/ OnWillReceiveMessage /\ UNCHANGED pureVars
  \/ OnDidSendMessage /\ UNCHANGED pureVars

Spec == Init /\ [][Next]_vars

\* ------------------------------------------------------------------ claims

\* The indices of the markers at or before compiled line q.
AtOrBefore(markers, q) == {i \in 1..Len(markers) : markers[i].javaLine <= q}

StrictlyAscending(markers) ==
  \A i \in 1..(Len(markers) - 1) : markers[i].javaLine < markers[i + 1].javaLine

\* C1: for a marker list strictly ascending in javaLine and a compiled line q,
\* mapJavaLineToJsp returns the jspLine/jspFile of the marker with the greatest
\* javaLine <= q, and undefined exactly when no marker has javaLine <= q.
C1_FloorMapping ==
  (call.op = "mapJavaLineToJsp" /\ StrictlyAscending(markersIn)) =>
    LET c == AtOrBefore(markersIn, call.line)
    IN IF c = {} THEN ret = None
       ELSE \E i \in c :
              /\ \A j \in c : markersIn[j].javaLine <= markersIn[i].javaLine
              /\ ret = Some([jspLine |-> markersIn[i].jspLine,
                             jspFile |-> markersIn[i].jspFile])

\* A query between two markers: the floor is not an exact match and a later
\* marker exists.
C1_Witness ==
  /\ call.op = "mapJavaLineToJsp"
  /\ Len(markersIn) >= 2
  /\ ret # None
  /\ \E i \in 1..Len(markersIn) : markersIn[i].javaLine > call.line
  /\ \A i \in 1..Len(markersIn) : markersIn[i].javaLine # call.line

\* The markers mapJspLineToJavaLine may choose from, when a marker's reference
\* is matched by the predicate same(file, refs).
JspCandidates(markers, refs, jspLine, same(_, _)) ==
  {i \in 1..Len(markers) :
     /\ markers[i].jspFile # None
     /\ same(Val(markers[i].jspFile), refs)
     /\ markers[i].jspLine <= jspLine}

\* The result the claim describes for a candidate set c.
JspBestOf(markers, c, result) ==
  IF c = {} THEN result = None
  ELSE \E i \in c :
         /\ \A j \in c :
              \/ markers[j].jspLine < markers[i].jspLine
              \/ /\ markers[j].jspLine = markers[i].jspLine
                 /\ markers[j].javaLine <= markers[i].javaLine
         /\ result = Some(markers[i].javaLine + 1)

SameText(file, refs) == file \in refs
SameUpToSlashes(file, refs) ==
  NormalizeSlashes(file) \in {NormalizeSlashes(r) : r \in refs}

\* C2 as stated: only the markers whose jspFile equals one of refs and whose
\* jspLine <= L count; the one with the greatest jspLine, then the greatest
\* javaLine, gives javaLine + 1; undefined exactly when there is none.
C2_AsStated ==
  call.op = "mapJspLineToJavaLine" =>
    JspBestOf(markersIn, JspCandidates(markersIn, call.refs, call.line, SameText), ret)

\* C2, amended: the same, with a marker's jspFile compared to refs after
\* backslashes are replaced by slashes on both sides.
C2_BestMarkerUpToSlashes ==
  call.op = "mapJspLineToJavaLine" =>
    JspBestOf(markersIn,
              JspCandidates(markersIn, call.refs, call.line, SameUpToSlashes), ret)

\* Two matching markers tie on jspLine, and a marker of another file with a
\* jspLine <= L does not count.
C2_Witness ==
  /\ call.op = "mapJspLineToJavaLine"
  /\ ret # None
  /\ LET c == JspCandidates(markersIn, call.refs, call.line, SameUpToSlashes)
     IN /\ \E i, j \in c : i # j /\ markersIn[i].jspLine = markersIn[j].jspLine
        /\ \E k \in 1..Len(markersIn) :
             /\ k \notin c
             /\ markersIn[k].jspFile # None
             /\ markersIn[k].jspLine <= call.line

\* Whether the file's fingerprint differs from the entry's: mtime or size, or
\* the identity token when both sides have one.
FingerprintDiffers(e, f) ==
  \/ e.mtimeMs # f.mtimeMs
  \/ e.size # ByteLength(f.text)
  \/ e.ino # None /\ f.ino # None /\ e.ino # f.ino

\* C8: a read that stats a file whose fingerprint differs from the cached one
\* (mtime, size, or inode when both sides have one) reads the file again; when
\* the read succeeds the entry is replaced by one with the new fingerprint and
\* the markers returned are those of the current content.
C8_FingerprintInvalidation ==
  ( /\ lastOp.op = "read"
    /\ lastOp.stats = 1
    /\ lastOp.file # None
    /\ lastOp.existing # None
    /\ FingerprintDiffers(Val(lastOp.existing), Val(lastOp.file)) ) =>
    LET f == Val(lastOp.file)
        markers == parseTomcatGeneratedJavaMarkers(f.text)
    IN /\ lastOp.reads = 1
       /\ f.readable =>
            /\ lastOp.result = Some(markers)
            /\ MapGet(map, lastOp.path) =
                 Some(Entry(lastOp.path, f.ino, f.mtimeMs, ByteLength(f.text),
                            markers, lastOp.at))

\* An atomic replace: same mtime and size, another inode, other markers.
C8_Witness ==
  /\ lastOp.op = "read"
  /\ lastOp.existing # None
  /\ lastOp.file # None
  /\ LET e == Val(lastOp.existing)
         f == Val(lastOp.file)
     IN /\ e.mtimeMs = f.mtimeMs
        /\ e.size = ByteLength(f.text)
        /\ e.ino # None /\ f.ino # None /\ e.ino # f.ino
        /\ lastOp.result = Some(parseTomcatGeneratedJavaMarkers(f.text))
        /\ lastOp.result # Some(e.markers)

\* Whether a read recorded in op fell inside the debounce window of the entry
\* it found.
InsideWindow(op, debounce) ==
  /\ op.op = "read"
  /\ ~op.forceStat
  /\ op.existing # None
  /\ debounce > 0
  /\ op.at - Val(op.existing).lastStatCheckMs < debounce

\* C9: with a positive debounce window, of two successive reads of a path
\* without forceStat that both fall inside the debounce window of the entry's
\* last check, the second returns the marker list the first returned and
\* touches no file, whatever happened to the file in between.
C9_DebouncedReadsAgree ==
  [][ ( /\ InsideWindow(lastOp, statDebounceMs)
        /\ InsideWindow(lastOp', statDebounceMs')
        /\ lastOp'.path = lastOp.path ) =>
        ( /\ lastOp'.result = lastOp.result
          /\ lastOp'.stats = 0
          /\ lastOp'.reads = 0 ) ]_vars

\* A read inside the window returned markers although the file is gone, or
\* markers that are not those of the file's content.
C9_Witness ==
  /\ InsideWindow(lastOp, statDebounceMs)
  /\ lastOp.result # None
  /\ \/ lastOp.file = None
     \/ /\ lastOp.file # None
        /\ lastOp.result # Some(parseTomcatGeneratedJavaMarkers(Val(lastOp.file).text))

\* C10 as stated: a read with forceStat returns the markers of the file's
\* current content, whatever the cache holds.
C10_AsStated ==
  ( /\ lastOp.op = "read"
    /\ lastOp.forceStat
    /\ lastOp.file # None
    /\ Val(lastOp.file).readable ) =>
    lastOp.result = Some(parseTomcatGeneratedJavaMarkers(Val(lastOp.file).text))

\* C10, amended: a read with forceStat always stats the file; it returns
\* undefined when the file is missing, the markers of the current content when
\* there is no entry or the fingerprint differs from the cached one (and the
\* file can be read), and the cached markers when the fingerprint is unchanged.
C10_ForcedReadFollowsFingerprint ==
  (lastOp.op = "read" /\ lastOp.forceStat) =>
    /\ lastOp.stats = 1
    /\ lastOp.file = None => lastOp.result = None
    /\ lastOp.file # None =>
         LET f == Val(lastOp.file)
             changed == \/ lastOp.existing = None
                        \/ FingerprintDiffers(Val(lastOp.existing), f)
         IN /\ (changed /\ f.readable) =>
                 lastOp.result = Some(parseTomcatGeneratedJavaMarkers(f.text))
            /\ ~changed => lastOp.result = Some(Val(lastOp.existing).markers)

\* A forced read inside the debounce window picks up a recompile.
C10_Witness ==
  /\ lastOp.op = "read"
  /\ lastOp.forceStat
  /\ lastOp.existing # None
  /\ lastOp.file # None
  /\ statDebounceMs > 0
  /\ lastOp.at - Val(lastOp.existing).lastStatCheckMs < statDebounceMs
  /\ lastOp.result = Some(parseTomcatGeneratedJavaMarkers(Val(lastOp.file).text))
  /\ lastOp.result # Some(Val(lastOp.existing).markers)

\* ------------------------------------------- claims on the message handlers

ByRequestHandler == handled.by = "onWillReceiveMessage"
ByResponseHandlers == handled.by = "onDidSendMessage"

IsSetBreakpointsRequest(message) ==
  message.type = "request" /\ message.command = "setBreakpoints"
IsSetBreakpointsResponse(message) ==
  message.type = "response" /\ message.command = "setBreakpoints"
IsStackTraceResponse(message) ==
  message.type = "response" /\ message.command = "stackTrace"

\* The request handled last was a setBreakpoints request on a template-like
\* path inside a workspace root.
TemplateRequestHandled ==
  /\ ByRequestHandler
  /\ IsSetBreakpointsRequest(handled.in)
  /\ handled.in.path # None
  /\ FileExt(basename(Val(handled.in.path))) \in {"jsp", "jspf", "tag"}
  /\ \E k \in 1..Len(WorkspaceFolders) :
       StartsWithDir(Val(handled.in.path), WorkspaceFolders[k])

\* The markers of the compiled source the locator named, if it named one.
LocatedMarkers ==
  IF handled.found = None THEN None ELSE DiskMarkers(disk, Val(handled.found))

\* The breakpoints of items whose line has a marker to be translated through.
Translatable(markers, refs, items) ==
  {i \in 1..Len(items) :
     /\ items[i].line # None
     /\ JspCandidates(markers, refs, Val(items[i].line), SameUpToSlashes) # {}}

\* The breakpoints of the request handled last that translate.
TranslatedNow ==
  IF LocatedMarkers = None THEN {}
  ELSE Translatable(Val(LocatedMarkers),
                    computePossibleMarkerJspRefs(Val(handled.in.path), settings.webRoots),
                    handled.in.items)

\* C3: for a setBreakpoints request on a template-like path inside a workspace
\* root, if at least one breakpoint line was translated the request's source
\* path is the compiled path and a pending translation is recorded under the
\* request's seq; otherwise the request is unmodified and the pending
\* translations are as they were.
C3_RewrittenAndPendingOrUntouched ==
  TemplateRequestHandled =>
    IF TranslatedNow # {}
    THEN /\ handled.out.path = handled.found
         /\ CacheGet(pendingByRequestSeq, Val(handled.in.seq))
              = Some(Pending(Val(handled.in.path), Val(handled.found)))
         /\ \A i \in 1..Len(handled.in.items) :
              i \notin TranslatedNow => handled.out.items[i] = handled.in.items[i]
    ELSE /\ handled.out = handled.in
         /\ pendingByRequestSeq = handled.pendingBefore

\* A request with one line that translates and one that does not: the source
\* is rewritten and the pending translation is new.
C3_Witness ==
  /\ TemplateRequestHandled
  /\ TranslatedNow # {}
  /\ \E i \in 1..Len(handled.in.items) :
       handled.in.items[i].line # None /\ i \notin TranslatedNow
  /\ handled.out.path # handled.in.path
  /\ CacheGet(handled.pendingBefore, Val(handled.in.seq)) = None

\* The message handled last was a successful setBreakpoints response whose
\* request_seq had a pending translation.
CorrelatedResponseHandled ==
  /\ ByResponseHandlers
  /\ IsSetBreakpointsResponse(handled.in)
  /\ handled.in.success
  /\ handled.in.request_seq # None
  /\ CacheGet(handled.pendingBefore, Val(handled.in.request_seq)) # None

\* The pending translation that response was correlated with.
PendingBefore == Val(CacheGet(handled.pendingBefore, Val(handled.in.request_seq)))

\* C4: once a setBreakpoints response whose request_seq matches a pending
\* translation has been processed, that pending translation is gone, whether
\* or not a breakpoint could be mapped back.
C4_PendingConsumedByResponse ==
  CorrelatedResponseHandled =>
    CacheGet(pendingByRequestSeq, Val(handled.in.request_seq)) = None

\* The index of the floor marker of compiled line q: the greatest javaLine <= q.
FloorIndex(markers, q) ==
  CHOOSE i \in AtOrBefore(markers, q) :
    \A j \in AtOrBefore(markers, q) : markers[j].javaLine <= markers[i].javaLine

\* The index of the marker a request for template line L is translated through.
ChosenIndex(markers, refs, L) ==
  CHOOSE i \in JspCandidates(markers, refs, L, SameUpToSlashes) :
    \A j \in JspCandidates(markers, refs, L, SameUpToSlashes) :
      \/ markers[j].jspLine < markers[i].jspLine
      \/ /\ markers[j].jspLine = markers[i].jspLine
         /\ markers[j].javaLine <= markers[i].javaLine

\* The workspace file a template reference resolves to for the handler, if any.
ResolvedTemplate(ref) ==
  resolveWorkspaceJspPath(ref, settings.webRoots, handled.jspCacheBefore,
                          settings.jspPathCacheTtlMs, disk, now).path

\* What the request under the response's request_seq was made from.
SentBefore == Val(CacheGet(sent, Val(handled.in.request_seq)))

\* The breakpoints of that request, if there was one.
SentLines ==
  IF /\ handled.in.request_seq # None
     /\ CacheGet(sent, Val(handled.in.request_seq)) # None
  THEN SentBefore.lines
  ELSE <<>>

\* The response handled last answers a translated request, the compiled source
\* has the markers it had then, and breakpoint i reports, in that source, the
\* compiled line that template line k of the request was translated to,
\* through a marker whose template reference resolves.
RoundTrip(i, k) ==
  /\ CorrelatedResponseHandled
  /\ CacheGet(sent, Val(handled.in.request_seq)) # None
  /\ SentBefore.generatedJavaPath = PendingBefore.generatedJavaPath
  /\ SentBefore.markers # None
  /\ DiskMarkers(disk, PendingBefore.generatedJavaPath) = SentBefore.markers
  /\ k \in Translatable(Val(SentBefore.markers), SentBefore.refs, SentBefore.lines)
  /\ LET m == Val(SentBefore.markers)[ChosenIndex(Val(SentBefore.markers), SentBefore.refs,
                                                  Val(SentBefore.lines[k].line))]
     IN /\ handled.in.items[i].line = Some(m.javaLine + 1)
        /\ ResolvedTemplate(Val(m.jspFile)) # None
  /\ \/ handled.in.items[i].path = None
     \/ handled.in.items[i].path = Some(PendingBefore.generatedJavaPath)

\* The marker template line k of the request was translated through.
RoundTripMarker(k) ==
  Val(SentBefore.markers)[ChosenIndex(Val(SentBefore.markers), SentBefore.refs,
                                      Val(SentBefore.lines[k].line))]

\* Whether the compiled line after marker m is itself a marker.
MarkerFollows(markers, m) ==
  \E j \in 1..Len(markers) : markers[j].javaLine = m.javaLine + 1

\* C5 as stated: the breakpoint is mapped back to a template line >=
\* m.jspLine, and to exactly L when L has its own marker followed by a
\* non-marker line.
C5_AsStated ==
  \A i \in 1..Len(handled.in.items) : \A k \in 1..Len(SentLines) :
    RoundTrip(i, k) =>
      /\ handled.out.items[i].line # None
      /\ Val(handled.out.items[i].line) >= RoundTripMarker(k).jspLine
      /\ ( /\ RoundTripMarker(k).jspLine = Val(SentBefore.lines[k].line)
           /\ ~MarkerFollows(Val(SentBefore.markers), RoundTripMarker(k)) )
         => handled.out.items[i].line = SentBefore.lines[k].line

\* C5, amended: when the line after m is not a marker, the breakpoint is mapped
\* back to exactly m.jspLine (which is L when L has its own marker) in the
\* resolved template; when the line after m is a marker, the breakpoint is
\* mapped through that marker instead.
C5_RoundTripThroughFloorMarker ==
  \A i \in 1..Len(handled.in.items) : \A k \in 1..Len(SentLines) :
    RoundTrip(i, k) =>
      LET markers == Val(SentBefore.markers)
          m == RoundTripMarker(k)
          fl == markers[FloorIndex(markers, m.javaLine + 1)]
      IN /\ ~MarkerFollows(markers, m) =>
              /\ fl = m
              /\ handled.out.items[i]
                   = Item(Some(m.jspLine), ResolvedTemplate(Val(m.jspFile)))
              /\ m.jspLine = Val(SentBefore.lines[k].line)
                   => handled.out.items[i].line = SentBefore.lines[k].line
         /\ MarkerFollows(markers, m) =>
              /\ fl.javaLine = m.javaLine + 1
              /\ (fl.jspFile # None /\ ResolvedTemplate(Val(fl.jspFile)) # None)
                   => handled.out.items[i]
                        = Item(Some(fl.jspLine), ResolvedTemplate(Val(fl.jspFile)))

\* A request at a template line with its own marker and a statement after it,
\* answered at the translated line: the breakpoint comes back at that line.
C5_Witness ==
  \E i \in 1..Len(handled.in.items) : \E k \in 1..Len(SentLines) :
    /\ RoundTrip(i, k)
    /\ ~MarkerFollows(Val(SentBefore.markers), RoundTripMarker(k))
    /\ RoundTripMarker(k).jspLine = Val(SentBefore.lines[k].line)
    /\ handled.out.items[i].line = SentBefore.lines[k].line
    /\ handled.out.items[i].path = Some(JspIndex)

\* The compiled source breakpoint bp of the response handled last is mapped
\* with: its own source if that looks like a compiled template, else the
\* pending translation's.
EffectivePath(bp) ==
  IF /\ bp.path # None
     /\ \/ EndsWithJspJava(basename(Val(bp.path)))
        \/ EndsWithTagJava(basename(Val(bp.path)))
        \/ InJspPackage(Val(bp.path)) /\ FileExt(basename(Val(bp.path))) = "java"
  THEN Val(bp.path)
  ELSE PendingBefore.generatedJavaPath

\* Breakpoint bp has a floor marker whose template reference resolves.
HasResolvableFloor(bp) ==
  /\ bp.line # None
  /\ DiskMarkers(disk, EffectivePath(bp)) # None
  /\ AtOrBefore(Val(DiskMarkers(disk, EffectivePath(bp))), Val(bp.line)) # {}
  /\ LET markers == Val(DiskMarkers(disk, EffectivePath(bp)))
         fl == markers[FloorIndex(markers, Val(bp.line))]
     IN fl.jspFile # None /\ ResolvedTemplate(Val(fl.jspFile)) # None

\* The breakpoint the claim says comes out for bp.
MappedBack(bp) ==
  LET markers == Val(DiskMarkers(disk, EffectivePath(bp)))
      fl == markers[FloorIndex(markers, Val(bp.line))]
  IN Item(Some(fl.jspLine), ResolvedTemplate(Val(fl.jspFile)))

\* C6: for a successful setBreakpoints response correlated with a pending
\* translation, every returned breakpoint with a numeric line whose floor
\* marker carries a template reference that resolves to a workspace file gets
\* that marker's jspLine as its line and the resolved template as its source.
C6_EveryResolvableBreakpointMappedBack ==
  CorrelatedResponseHandled =>
    \A i \in 1..Len(handled.in.items) :
      HasResolvableFloor(handled.in.items[i]) =>
        handled.out.items[i] = MappedBack(handled.in.items[i])

\* A path the message names that is not on disk.
NamesMissingPath(message) ==
  \/ message.path # None /\ ~existsSync(disk, Val(message.path))
  \/ \E i \in 1..Len(message.items) :
       message.items[i].path # None /\ ~existsSync(disk, Val(message.items[i].path))

\* C7 as stated: a stackTrace response, setBreakpoints request or response
\* that references a path that does not exist on disk is left unchanged.
C7_AsStated ==
  ( /\ handled.by # "none"
    /\ \/ IsSetBreakpointsRequest(handled.in)
       \/ IsSetBreakpointsResponse(handled.in)
       \/ IsStackTraceResponse(handled.in)
    /\ NamesMissingPath(handled.in) )
  => handled.out = handled.in

\* C7, amended: what does not exist is the compiled source. A stack frame whose
\* source path does not exist is unchanged; a request is unchanged, and nothing
\* pending is recorded, when no compiled source is located or the located one
\* does not exist; a response is unchanged when the pending compiled source
\* does not exist, and a returned breakpoint when the compiled source it is
\* mapped with does not exist.
C7_FailOpenOnMissingCompiledSource ==
  /\ (ByResponseHandlers /\ IsStackTraceResponse(handled.in)) =>
       \A i \in 1..Len(handled.in.items) :
         ( /\ handled.in.items[i].path # None
           /\ ~existsSync(disk, Val(handled.in.items[i].path)) )
         => handled.out.items[i] = handled.in.items[i]
  /\ (ByRequestHandler /\ IsSetBreakpointsRequest(handled.in)) =>
       ( (handled.found = None \/ ~existsSync(disk, Val(handled.found)))
         => /\ handled.out = handled.in
            /\ pendingByRequestSeq = handled.pendingBefore )
  /\ CorrelatedResponseHandled =>
       /\ ~existsSync(disk, PendingBefore.generatedJavaPath)
            => handled.out = handled.in
       /\ \A i \in 1..Len(handled.in.items) :
            ~existsSync(disk, EffectivePath(handled.in.items[i]))
              => handled.out.items[i] = handled.in.items[i]

\* The locator still names, from its cache, a compiled source that has been
\* removed: the request for the template goes out as it came in.
C7_Witness ==
  /\ TemplateRequestHandled
  /\ handled.found # None
  /\ ~existsSync(disk, Val(handled.found))
  /\ Len(handled.in.items) > 0
  /\ handled.out = handled.in

\* -------------------------------------------- claims on the cache's bound

Without(m, key) == SelectSeq(m, LAMBDA e : e.key # key)

AllButLast(m) == SubSeq(m, 1, Len(m) - 1)

ReadSucceeded == lastOp.op = "read" /\ lastOp.result # None

InsertedIntoFull ==
  /\ ReadSucceeded
  /\ MapGet(lastOp.before, lastOp.path) = None
  /\ Len(lastOp.before) = maxEntries

\* C11: a successful read, whichever branch served it, leaves the path read as
\* the last (most recently used) entry and the other entries in the order
\* they had; when the path is new and the cache already held maxEntries
\* entries, exactly the first (least recently touched) entry is gone, and in
\* every other case no entry is gone.
C11_LeastRecentlyTouchedEvicted ==
  ReadSucceeded =>
    /\ Len(map) >= 1
    /\ map[Len(map)].key = lastOp.path
    /\ IF InsertedIntoFull
       THEN AllButLast(map) = Tail(lastOp.before)
       ELSE AllButLast(map) = Without(lastOp.before, lastOp.path)

\* A third path is read into a cache of two: the first of the two is evicted
\* and the second is kept.
C11_Witness ==
  /\ InsertedIntoFull
  /\ maxEntries = 2
  /\ lastOp.path = GenThird
  /\ lastOp.before[1].key = GenOther
  /\ lastOp.before[1].lastStatCheckMs = 0
  /\ MapGet(map, GenOther) = None
  /\ MapGet(map, GenIndex) # None

Newest(m, n) == SubSeq(m, Len(m) - n + 1, Len(m))

\* C12: in every state the cache holds at most maxEntries entries, maxEntries
\* is at least 1 and is the value last configured (by the constructor or by
\* updateOptions) raised to 1 when it was lower, and updateOptions leaves
\* exactly the most recently used entries that fit.
C12_SizeBound ==
  /\ Len(map) <= maxEntries
  /\ maxEntries >= 1
  /\ (lastOp.op \in {"construct", "updateOptions"} /\ lastOp.configured # None) =>
       maxEntries = (IF Val(lastOp.configured) < 1 THEN 1 ELSE Val(lastOp.configured))
  /\ lastOp.op = "updateOptions" =>
       map = (IF Len(lastOp.before) > maxEntries
              THEN Newest(lastOp.before, maxEntries) ELSE lastOp.before)

\* updateOptions({maxEntries: 0}) on a cache of three entries leaves the newest.
C12_Witness ==
  /\ lastOp.op = "updateOptions"
  /\ lastOp.configured = Some(0)
  /\ Len(lastOp.before) = 3
  /\ maxEntries = 1
  /\ map = <<lastOp.before[3]>>

StatOrReadFailed ==
  /\ lastOp.op = "read"
  /\ lastOp.stats = 1
  /\ \/ lastOp.file = NoFileOnDisk
     \/ lastOp.reads = 1 /\ ~Val(lastOp.file).readable

\* C13: a read whose stat or whose file read fails returns nothing and leaves
\* the map as it was with the entry of that path taken out: every other entry
\* is kept, unchanged and in the same order.
C13_FailureRemovesOnlyThatEntry ==
  StatOrReadFailed =>
    /\ lastOp.result = None
    /\ map = Without(lastOp.before, lastOp.path)

\* The middle entry of three is read after its file was deleted.
C13_Witness ==
  /\ StatOrReadFailed
  /\ lastOp.file = NoFileOnDisk
  /\ Len(lastOp.before) = 3
  /\ lastOp.before[2].key = lastOp.path
  /\ Len(map) = 2

\* ------------------------------------- claims on the stack-frame rewriter

StackTraceHandled ==
  /\ ByResponseHandlers
  /\ IsStackTraceResponse(handled.in)
  /\ handled.in.success

\* The frames the loop reads markers for: a source path that looks like a
\* compiled template source, and a numeric line.
Qualifying(items) ==
  {i \in 1..Len(items) :
     /\ items[i].path # None
     /\ items[i].line # None
     /\ \/ EndsWithJspJava(basename(Val(items[i].path)))
        \/ InJspPackage(Val(items[i].path)) /\ FileExt(basename(Val(items[i].path))) = "java"}

\* The qualifying frames in order.
QualifyingInOrder(items) ==
  SelectSeq([i \in 1..Len(items) |-> i], LAMBDA i : i \in Qualifying(items))

FirstOfItsPath(items, i) ==
  \A j \in Qualifying(items) : j < i => items[j].path # items[i].path

\* C14: while one stackTrace response is processed, one marker read is made
\* per qualifying frame, in frame order; it is forced for the first qualifying
\* frame of each compiled path and not forced for every later frame of that
\* path.
C14_ForcedOncePerPath ==
  StackTraceHandled =>
    /\ Len(handled.reads) = Len(QualifyingInOrder(handled.in.items))
    /\ \A k \in 1..Len(handled.reads) :
         LET i == QualifyingInOrder(handled.in.items)[k]
         IN /\ handled.reads[k].path = Val(handled.in.items[i].path)
            /\ handled.reads[k].forceStat = FirstOfItsPath(handled.in.items, i)

\* Two frames of one compiled source with a frame of another in between.
C14_Witness ==
  /\ StackTraceHandled
  /\ handled.reads = << [path |-> GenIndex, forceStat |-> TRUE],
                        [path |-> GenOther, forceStat |-> TRUE],
                        [path |-> GenIndex, forceStat |-> FALSE] >>

\* The workspace file a template reference resolves to for the stack-frame
\* rewriter, if any.
SfResolvedTemplate(ref) ==
  resolveWorkspaceJspPath(ref, settings.webRoots, handled.sfJspCacheBefore,
                          settings.jspPathCacheTtlMs, disk, now).path

\* The frame as the content now on disk maps it, or the frame itself.
MappedFromDisk(frame) ==
  LET ms == DiskMarkers(disk, Val(frame.path))
  IN IF ms = None THEN frame
     ELSE IF AtOrBefore(Val(ms), Val(frame.line)) = {} THEN frame
     ELSE LET fl == Val(ms)[FloorIndex(Val(ms), Val(frame.line))]
          IN IF fl.jspFile = None THEN frame
             ELSE IF SfResolvedTemplate(Val(fl.jspFile)) = None THEN frame
             ELSE Item(Some(fl.jspLine), SfResolvedTemplate(Val(fl.jspFile)))

\* Before the response the rewriter's cache held an entry for p made from a
\* file with another fingerprint than the one now on disk.
RewrittenSinceCached(p) ==
  /\ MapGet(handled.sfMapBefore, p) # None
  /\ existsSync(disk, p)
  /\ FingerprintDiffers(Val(MapGet(handled.sfMapBefore, p)), Val(StatOf(disk, p)))

StillInDebounceWindow(p) ==
  now - Val(MapGet(handled.sfMapBefore, p)).lastStatCheckMs < statDebounceMs

\* C15: when a compiled source was rewritten with a changed fingerprint after
\* an earlier response cached its markers, every frame of that source in the
\* next stackTrace response is mapped with the markers of the content now on
\* disk, inside the debounce window as well as outside.
C15_FramesFollowRecompile ==
  StackTraceHandled =>
    \A i \in Qualifying(handled.in.items) :
      RewrittenSinceCached(Val(handled.in.items[i].path)) =>
        handled.out.items[i] = MappedFromDisk(handled.in.items[i])

\* Inside the debounce window the frame at compiled line 3 comes out at the
\* template line of the new marker, not at that of the cached one.
C15_Witness ==
  /\ StackTraceHandled
  /\ handled.in.items = <<Item(Line(3), Some(GenIndex))>>
  /\ RewrittenSinceCached(GenIndex)
  /\ StillInDebounceWindow(GenIndex)
  /\ Val(MapGet(handled.sfMapBefore, GenIndex)).markers = <<Marker(2, 2, Some(RefWebappIndex))>>
  /\ handled.out.items = <<Item(Line(1), Some(JspIndex))>>

\* ------------------------------- claims on requests after a recompile

\* Before the request the translator's cache held an entry for the compiled
\* source the locator named, made from a file with another fingerprint than
\* the one now on disk.
LocatedRewrittenSinceCached ==
  /\ TemplateRequestHandled
  /\ handled.found # None
  /\ MapGet(handled.mapBefore, Val(handled.found)) # None
  /\ existsSync(disk, Val(handled.found))
  /\ FingerprintDiffers(Val(MapGet(handled.mapBefore, Val(handled.found))),
                        Val(StatOf(disk, Val(handled.found))))

\* Request line i as the content now on disk translates it.
TranslatedFromDisk(i) ==
  LET markers == Val(LocatedMarkers)
      refs == computePossibleMarkerJspRefs(Val(handled.in.path), settings.webRoots)
  IN [handled.in.items[i] EXCEPT
        !.line = Some(markers[ChosenIndex(markers, refs, Val(handled.in.items[i].line))].javaLine + 1)]

\* C16: when the compiled source of a template was rewritten with a changed
\* fingerprint after an earlier request cached its markers, the next
\* setBreakpoints request for the template is translated with the markers of
\* the content now on disk, inside the marker cache's debounce window and the
\* locator cache's TTL as well as outside.
C16_BreakpointsFollowRecompile ==
  LocatedRewrittenSinceCached =>
    \A i \in 1..Len(handled.in.items) :
      handled.out.items[i] =
        (IF i \in TranslatedNow THEN TranslatedFromDisk(i) ELSE handled.in.items[i])

\* The second request for line 2 is answered from the locator cache, finds the
\* marker entry inside its debounce window, and still goes to compiled line 2
\* of the new content instead of line 3 of the old.
C16_Witness ==
  /\ LocatedRewrittenSinceCached
  /\ CacheGet(handled.genCacheBefore, JspIndex) # None
  /\ now - Val(CacheGet(handled.genCacheBefore, JspIndex)).checkedAtMs
       < settings.generatedJavaPathCacheTtlMs
  /\ now - Val(MapGet(handled.mapBefore, GenIndex)).lastStatCheckMs < statDebounceMs
  /\ Val(MapGet(handled.mapBefore, GenIndex)).markers = <<Marker(2, 2, Some(RefWebappIndex))>>
  /\ handled.in.items = <<Item(Line(2), None)>>
  /\ handled.out.items = <<Item(Line(2), None)>>
  /\ handled.out.path = Some(GenIndex)

\* ------------------------------------------- claims on what is passed on

\* C17: of the messages of the adapter, the breakpoint translator changes only
\* successful setBreakpoints responses and the stack-frame rewriter changes
\* only successful stackTrace responses (handled.mid is the message between
\* the two); of the messages of the editor, the breakpoint translator changes
\* only setBreakpoints requests.
C17_OnlyTheirOwnMessages ==
  /\ (ByRequestHandler /\ ~IsSetBreakpointsRequest(handled.in)) =>
       handled.out = handled.in
  /\ (ByResponseHandlers /\ ~(IsSetBreakpointsResponse(handled.in) /\ handled.in.success)) =>
       handled.mid = handled.in
  /\ (ByResponseHandlers /\ ~(IsStackTraceResponse(handled.in) /\ handled.in.success)) =>
       handled.out = handled.mid

\* A successful threads response carries a frame that a stackTrace response
\* would have had rewritten, and is passed on as it came.
C17_Witness ==
  /\ ByResponseHandlers
  /\ handled.in.type = "response"
  /\ handled.in.command = "threads"
  /\ handled.in.success
  /\ Len(handled.in.items) = 1
  /\ 1 \in Qualifying(handled.in.items)
  /\ MappedFromDisk(handled.in.items[1]) # handled.in.items[1]
  /\ handled.out = handled.in

FloorWithoutTemplate(frame) ==
  /\ DiskMarkers(disk, Val(frame.path)) # None
  /\ AtOrBefore(Val(DiskMarkers(disk, Val(frame.path))), Val(frame.line)) # {}
  /\ LET ms == Val(DiskMarkers(disk, Val(frame.path)))
     IN ms[FloorIndex(ms, Val(frame.line))].jspFile = None

ForeignRequestHandled ==
  /\ ByRequestHandler
  /\ IsSetBreakpointsRequest(handled.in)
  /\ handled.in.path # None
  /\ \/ FileExt(basename(Val(handled.in.path))) \notin {"jsp", "jspf", "tag"}
     \/ \A k \in 1..Len(WorkspaceFolders) :
          ~StartsWithDir(Val(handled.in.path), WorkspaceFolders[k])

\* C19: a setBreakpoints request whose source path is not template-like, or
\* lies outside every workspace folder, is passed on as it came and leaves the
\* pending translations as they were.
C19_ForeignRequestPassedThrough ==
  ForeignRequestHandled =>
    /\ handled.out = handled.in
    /\ pendingByRequestSeq = handled.pendingBefore

\* A template outside the workspace whose file name a compiled source in the
\* work directory names for the requested line.
C19_Witness ==
  /\ ForeignRequestHandled
  /\ handled.in.path = Some(OutsideJsp)
  /\ DiskMarkers(disk, GenOther) # None
  /\ \E i \in 1..Len(Val(DiskMarkers(disk, GenOther))) :
       /\ Val(DiskMarkers(disk, GenOther))[i].jspFile = Some(RefIndexBase)
       /\ Some(Val(DiskMarkers(disk, GenOther))[i].jspLine) = handled.in.items[1].line
  /\ handled.out = handled.in
  /\ pendingByRequestSeq = <<>>

\* ------------------------------------------------------ claims on sessions

\* A setBreakpoints response arrived in one session while a pending
\* translation recorded by a request of another session was held under its
\* request_seq.
ResponseMeetsOtherSessionsPending ==
  /\ ByResponseHandlers
  /\ IsSetBreakpointsResponse(handled.in)
  /\ handled.in.request_seq # None
  /\ CacheGet(handled.pendingBefore, Val(handled.in.request_seq)) # None
  /\ CacheGet(sent, Val(handled.in.request_seq)) # None
  /\ SentBefore.session # handled.session

\* C20: a setBreakpoints response of one session is not correlated with a
\* pending translation recorded by another session under the same sequence
\* number: the response is passed on as it came and the pending translation
\* stays.
C20_SessionsKeepTheirOwnPending ==
  ResponseMeetsOtherSessionsPending =>
    /\ handled.mid = handled.in
    /\ pendingByRequestSeq = handled.pendingBefore

\* --------------------------------------------- claims on identity tokens

\* The last operation was a read that reached statSync on a file whose mtime
\* and size equal the cached entry's, with the identity token missing on the
\* cached side or on the stat side.
StatMatchedWithoutToken ==
  /\ lastOp.op = "read"
  /\ lastOp.stats = 1
  /\ lastOp.existing # None
  /\ lastOp.file # None
  /\ Val(lastOp.existing).mtimeMs = Val(lastOp.file).mtimeMs
  /\ Val(lastOp.existing).size = ByteLength(Val(lastOp.file).text)
  /\ \/ Val(lastOp.existing).ino = None
     \/ Val(lastOp.file).ino = None

\* C28: a read that stats a file whose mtime and size equal the cached ones,
\* while the identity token is missing on the cached side or on the stat side,
\* returns the cached markers without reading the file; the entry moves to
\* the most recent position with only its last-check time changed, and every
\* other entry stays as it was.
C28_FreshWithoutToken ==
  StatMatchedWithoutToken =>
    /\ lastOp.result = Some(Val(lastOp.existing).markers)
    /\ lastOp.reads = 0
    /\ map = Append(MapDelete(lastOp.before, lastOp.path),
                    [Val(lastOp.existing) EXCEPT !.lastStatCheckMs = lastOp.at])

\* The cached entry has a token, the file on disk has none and another
\* content; the markers returned are the cached ones, not those on disk.
C28_Witness ==
  /\ StatMatchedWithoutToken
  /\ Val(lastOp.existing).ino # None
  /\ Val(lastOp.file).ino = None
  /\ Val(lastOp.file).readable
  /\ lastOp.result = Some(Val(lastOp.existing).markers)
  /\ lastOp.result # Some(parseTomcatGeneratedJavaMarkers(Val(lastOp.file).text))
  /\ lastOp.reads = 0
  /\ Val(lastOp.existing).lastStatCheckMs < lastOp.at
  /\ Val(MapGet(map, lastOp.path)).lastStatCheckMs = lastOp.at

\* ------------------------------------------- claims on repeated javaLines

\* The markers at or before the queried generated line.
AtOrBeforeQuery == {i \in 1..Len(markersIn) : markersIn[i].javaLine <= call.line}

\* Among the markers with the greatest javaLine at or before the query, the
\* position of the one that appears last in the list.
LastOfGreatest ==
  CHOOSE i \in AtOrBeforeQuery :
    \A j \in AtOrBeforeQuery :
      \/ markersIn[j].javaLine < markersIn[i].javaLine
      \/ markersIn[j].javaLine = markersIn[i].javaLine /\ j <= i

\* C27: on a list sorted non-decreasingly by javaLine, mapJavaLineToJsp
\* returns, among the markers with the greatest javaLine at or before the
\* query, the one that appears last in the list.
C27_LastAmongEqualsReturned ==
  (call.op = "mapJavaLineToJsp" /\ AtOrBeforeQuery # {}) =>
    ret = Some([jspLine |-> markersIn[LastOfGreatest].jspLine,
                jspFile |-> markersIn[LastOfGreatest].jspFile])

\* ------------------------------------------------- claims on the parser

\* The last operation read and parsed a generated source.
ParsedFromDisk ==
  /\ lastOp.op = "read"
  /\ lastOp.reads = 1
  /\ lastOp.file # None
  /\ Val(lastOp.file).readable

\* The comment forms that are markers, and those that name a template.
MarkerForms ==
  {"// line N \"F\"", "// line N \"F\" */", "// N \"F\"", "// line N", "// N"}
FormsWithFile == {"// line N \"F\"", "// line N \"F\" */", "// N \"F\""}

\* The 1-based indices of the lines of a text that are marker comments.
MarkerLinesOf(text) == {i \in 1..Len(text) : text[i].form \in MarkerForms}

\* C26: parsing a generated source never fails and yields one marker for
\* every line that is a marker comment and none for any other line; each
\* marker's javaLine is the 1-based index of its line, its jspLine and
\* template reference are those the line states (no reference for the bare
\* forms), and javaLine increases strictly along the list; a source without
\* marker comments yields the empty list.
C26_OneMarkerPerMarkerLine ==
  ParsedFromDisk =>
    /\ lastOp.result # None
    /\ LET text == Val(lastOp.file).text
           ms == Val(lastOp.result)
       IN /\ Len(ms) = Cardinality(MarkerLinesOf(text))
          /\ \A k \in 1..Len(ms) :
               /\ ms[k].javaLine \in MarkerLinesOf(text)
               /\ ms[k].jspLine = text[ms[k].javaLine].n
               /\ ms[k].jspFile =
                    IF text[ms[k].javaLine].form \in FormsWithFile
                    THEN text[ms[k].javaLine].file ELSE None
          /\ \A k \in 1..(Len(ms) - 1) : ms[k].javaLine < ms[k + 1].javaLine
          /\ (MarkerLinesOf(text) = {}) => (ms = <<>>)

\* A source with a marker naming a template, a code line and a bare marker:
\* two markers, on lines 1 and 3.
C26_Witness ==
  /\ ParsedFromDisk
  /\ Len(Val(lastOp.file).text) = 3
  /\ Val(lastOp.file).text[1].form = "// N \"F\""
  /\ Val(lastOp.file).text[2] = CodeLine
  /\ Val(lastOp.file).text[3].form = "// line N"
  /\ Len(Val(lastOp.result)) = 2
  /\ Val(lastOp.result)[1].javaLine = 1
  /\ Val(lastOp.result)[2].javaLine = 3
  /\ Val(lastOp.result)[2].jspFile = None

\* ------------------------------------------------ claims on bare markers

\* The marker comments of the readable file at p that lie at or before line q.
MarkerLinesUpTo(p, q) ==
  IF existsSync(disk, p) /\ Val(StatOf(disk, p)).readable
  THEN {j \in MarkerLinesOf(Val(StatOf(disk, p)).text) : j <= q}
  ELSE {}

\* The last marker comment at or before line q of the file at p is in a bare
\* form: a line number without a template reference.
FloorLineIsBare(p, q) ==
  /\ MarkerLinesUpTo(p, q) # {}
  /\ \E j \in MarkerLinesUpTo(p, q) :
       /\ \A k \in MarkerLinesUpTo(p, q) : k <= j
       /\ Val(StatOf(disk, p)).text[j].form \notin FormsWithFile

\* A marker comment before that one names a template.
EarlierLineNamesFile(p, q) ==
  \E j \in MarkerLinesUpTo(p, q) : Val(StatOf(disk, p)).text[j].form \in FormsWithFile

\* C29: a marker parsed from a bare comment has no template reference, and a
\* stack frame or returned breakpoint whose floor marker comment on disk is
\* bare leaves its handler as it came, whatever the markers before it name.
C29_BareMarkerNeverInherits ==
  /\ \A p \in DOMAIN disk :
       DiskMarkers(disk, p) # None =>
         \A k \in 1..Len(Val(DiskMarkers(disk, p))) :
           LET m == Val(DiskMarkers(disk, p))[k]
           IN (Val(StatOf(disk, p)).text[m.javaLine].form \notin FormsWithFile)
                => (m.jspFile = None)
  /\ StackTraceHandled =>
       \A i \in Qualifying(handled.in.items) :
         FloorLineIsBare(Val(handled.in.items[i].path), Val(handled.in.items[i].line))
           => (handled.out.items[i] = handled.in.items[i])
  /\ CorrelatedResponseHandled =>
       \A i \in 1..Len(handled.in.items) :
         ( /\ handled.in.items[i].line # None
           /\ FloorLineIsBare(EffectivePath(handled.in.items[i]),
                              Val(handled.in.items[i].line)) )
           => (handled.mid.items[i] = handled.in.items[i])

\* Two frames of one compiled source: the first lies under the marker naming
\* the template and is rewritten, the second under the bare marker that
\* follows it and is left as it came.
C29_Witness ==
  /\ StackTraceHandled
  /\ Len(handled.in.items) = 2
  /\ Qualifying(handled.in.items) = {1, 2}
  /\ handled.in.items[1].path = handled.in.items[2].path
  /\ handled.out.items[1].path = Some(JspIndex)
  /\ FloorLineIsBare(Val(handled.in.items[2].path), Val(handled.in.items[2].line))
  /\ EarlierLineNamesFile(Val(handled.in.items[2].path), Val(handled.in.items[2].line))
  /\ handled.out.items[2] = handled.in.items[2]

\* --------------------------------------- claims on disabled features

\* A message of a session was handed to its trackers last.
MessageHandled == handled.by \in {"onWillReceiveMessage", "onDidSendMessage"}

\* C24: a session whose translator tracker was created while breakpoint
\* translation was disabled has its messages passed by the translator as
\* they came, with the translator's caches and pending translations
\* untouched; a session whose rewriter tracker was created while stack-frame
\* rewriting was disabled has them passed by the rewriter as they came, with
\* the rewriter's caches untouched.
C24_DisabledAtCreationHandlesNothing ==
  MessageHandled =>
    /\ ~trackers[handled.session].createdWith.enabled =>
         /\ handled.mid = handled.in
         /\ map = handled.mapBefore
         /\ generatedJavaPathCache = handled.genCacheBefore
         /\ jspPathCache = handled.jspCacheBefore
         /\ pendingByRequestSeq = handled.pendingBefore
    /\ ~trackers[handled.session].createdWith.sfEnabled =>
         /\ handled.out = handled.mid
         /\ sfMap = handled.sfMapBefore
         /\ sfJspPathCache = handled.sfJspCacheBefore

\* A session started while stack-frame rewriting was disabled gets, after the
\* feature was enabled again, a stackTrace response with a frame on a compiled
\* source whose marker names the template on disk: it passes as it came.
C24_Witness ==
  /\ handled.by = "onDidSendMessage"
  /\ ~trackers[handled.session].createdWith.sfEnabled
  /\ settings.sfEnabled
  /\ IsStackTraceResponse(handled.in)
  /\ handled.in.items = <<Item(Line(3), Some(GenIndex))>>
  /\ DiskMarkers(disk, GenIndex) = Some(<<Marker(2, 1, Some(RefWebappIndex))>>)
  /\ existsSync(disk, JspIndex)
  /\ handled.out = handled.in
  /\ sfMap = <<>>

\* ------------------------------------ claims on configuration changes

\* What the translator's callbacks make of the message handled last when they
\* work with the settings now in force.
TranslatedUnderSettings ==
  IF handled.by = "onWillReceiveMessage"
  THEN tryRewriteSetBreakpointsRequest(handled.in, handled.mapBefore,
                                       handled.genCacheBefore,
                                       handled.pendingBefore, Context).message
  ELSE tryRewriteSetBreakpointsResponse(handled.in, handled.mapBefore,
                                        handled.jspCacheBefore,
                                        handled.pendingBefore, Context).message

\* C21: every message is handled according to the configuration in force
\* when it is processed, whenever the session's trackers were created: with a
\* feature disabled the message passes that interceptor as it came, with it
\* enabled the interceptor works with the current web roots, work
\* directories, cache options and TTLs.
C21_HandledUnderCurrentConfiguration ==
  MessageHandled =>
    /\ handled.mid = IF settings.enabled THEN TranslatedUnderSettings ELSE handled.in
    /\ handled.out =
         IF settings.sfEnabled /\ handled.by = "onDidSendMessage"
         THEN sfOnDidSendMessage(handled.mid, handled.sfMapBefore,
                                 handled.sfJspCacheBefore, Context).message
         ELSE handled.mid

\* ------------------------------------ claims on exceptions in a callback

\* C25: no exception raised while a tracker callback handles a message leaves
\* the callback, and the stackTrace response that follows one whose handling
\* raised an exception is rewritten as any other: every qualifying frame
\* through the markers and the template now on disk.
C25_ExceptionsStayInCallback ==
  /\ handled.escaped = None
  /\ (/\ StackTraceHandled
      /\ handled.afterCaught
      /\ handled.caught = None
      /\ trackers[handled.session].sf) =>
       \A i \in 1..Len(handled.in.items) :
         handled.out.items[i] =
           (IF i \in Qualifying(handled.in.items)
            THEN MappedFromDisk(handled.in.items[i])
            ELSE handled.in.items[i])

\* A response with a frame whose source path is not a string raised a
\* TypeError that was caught, after its first frame had been rewritten and
\* with its last frame left as it came; the frame of the next response was
\* rewritten to the template.
C25_Witness ==
  /\ StackTraceHandled
  /\ handled.afterCaught
  /\ handled.caught = None
  /\ handled.escaped = None
  /\ handled.in.items = <<Item(Line(3), Some(GenIndex))>>
  /\ handled.out.items[1].path = Some(JspIndex)

\* ------------------------------------ claims on the discovery pass

\* C23: a discovery pass examines at most maxGeneratedFilesToScan files in
\* total over all configured work directories.
C23_WalkWithinBudget ==
  handled.walk # None => Val(handled.walk) <= settings.maxGeneratedFilesToScan

\* Two work directories hold more files than the budget between them, the
\* first fewer than the budget: the pass stopped inside the second one, after
\* exactly the budget, and found nothing.
C23_Witness ==
  /\ handled.walk = Some(settings.maxGeneratedFilesToScan)
  /\ handled.found = None
  /\ Len(settings.tomcatWorkDirs) = 2
  /\ Len(walkFiles(disk, settings.tomcatWorkDirs[1])) < settings.maxGeneratedFilesToScan
  /\ Len(WalkAll(disk, settings.tomcatWorkDirs, 1)) > settings.maxGeneratedFilesToScan

\* ------------------------------------ claims on the locator's cache

\* The translator looked for the compiled source of the request's template.
LookupHandled == TemplateRequestHandled /\ trackers[handled.session].bp

\* What the locator's cache held for the template before the request.
CachedLookup == CacheGet(handled.genCacheBefore, Val(handled.in.path))

\* That entry exists and is younger than a TTL above zero.
CachedLookupFresh ==
  /\ CachedLookup # None
  /\ settings.generatedJavaPathCacheTtlMs > 0
  /\ now - Val(CachedLookup).checkedAtMs < settings.generatedJavaPathCacheTtlMs

\* C22: a lookup for a template whose earlier result, found or not found, is
\* younger than the TTL returns that result without walking a work directory
\* and leaves the cache as it was, whatever is on disk now; without an
\* entry, with TTL 0 or after the TTL the work directories are walked and the
\* result of the walk is cached with the time of the lookup.
C22_LookupCachedWithinTtl ==
  LookupHandled =>
    IF CachedLookupFresh
    THEN /\ handled.walk = None
         /\ handled.found = Val(CachedLookup).generatedJavaPath
         /\ generatedJavaPathCache = handled.genCacheBefore
    ELSE /\ handled.walk # None
         /\ CacheGet(generatedJavaPathCache, Val(handled.in.path))
              = Some([checkedAtMs |-> now, generatedJavaPath |-> handled.found])

\* Within the TTL the lookup named the compiled source found before, without
\* a walk, although the file has been removed since.
C22_Witness ==
  /\ LookupHandled
  /\ CachedLookupFresh
  /\ handled.walk = None
  /\ handled.found = Some(GenIndex)
  /\ ~existsSync(disk, GenIndex)

\* ------------------------------------ claims on the resolved-path memo

\* A memo entry that is younger than a TTL above zero.
MemoFresh(entry) ==
  /\ entry # None
  /\ settings.jspPathCacheTtlMs > 0
  /\ now - Val(entry).checkedAtMs < settings.jspPathCacheTtlMs

\* What the existence checks give for a reference now.
CheckedOnDisk(ref) ==
  resolveWorkspaceJspPath(ref, settings.webRoots, <<>>, 0, disk, now).path

\* A message handler left every fresh entry of the memo as it was, and every
\* entry it wrote holds the result of an existence check made now.
MemoRespected(before, after) ==
  /\ \A k \in DOMAIN before :
       MemoFresh(before[k]) => k \in DOMAIN after /\ after[k] = before[k]
  /\ \A k \in DOMAIN after :
       (k \notin DOMAIN before \/ after[k] # before[k]) =>
         /\ ~MemoFresh(CacheGet(before, k))
         /\ after[k] = Some([checkedAtMs |-> now, resolvedPath |-> CheckedOnDisk(k)])

\* The floor marker of the only frame of the response handled last.
ResolvedFloor ==
  LET ms == Val(DiskMarkers(disk, Val(handled.in.items[1].path)))
  IN ms[FloorIndex(ms, Val(handled.in.items[1].line))]

\* The rewriter handled a stackTrace response of one qualifying frame whose
\* floor marker on disk names a template.
ResolutionHandled ==
  /\ StackTraceHandled
  /\ trackers[handled.session].sf
  /\ Len(handled.in.items) = 1
  /\ 1 \in Qualifying(handled.in.items)
  /\ DiskMarkers(disk, Val(handled.in.items[1].path)) # None
  /\ AtOrBefore(Val(DiskMarkers(disk, Val(handled.in.items[1].path))),
                Val(handled.in.items[1].line)) # {}
  /\ ResolvedFloor.jspFile # None

\* The rewriter's memo entry for that marker's reference before the response.
ResolvedMemo ==
  CacheGet(handled.sfJspCacheBefore, NormalizeSlashes(Val(ResolvedFloor.jspFile)))

\* The frame as it comes out when its template resolves to p.
FrameResolvedTo(p) ==
  IF p = None THEN handled.in.items[1] ELSE Item(Some(ResolvedFloor.jspLine), p)

\* The memo part of the claim: the frame comes out by the memo's entry when it
\* is fresh and by the existence checks otherwise, and both memos are
\* respected by every message handler.
MemoDecidesResolution ==
  /\ ResolutionHandled =>
       IF MemoFresh(ResolvedMemo)
       THEN /\ handled.out.items[1] = FrameResolvedTo(Val(ResolvedMemo).resolvedPath)
            /\ sfJspPathCache = handled.sfJspCacheBefore
       ELSE /\ handled.out.items[1] = FrameResolvedTo(CheckedOnDisk(Val(ResolvedFloor.jspFile)))
            /\ CacheGet(sfJspPathCache, NormalizeSlashes(Val(ResolvedFloor.jspFile)))
                 = Some([checkedAtMs |-> now,
                         resolvedPath |-> CheckedOnDisk(Val(ResolvedFloor.jspFile))])
  /\ MessageHandled =>
       /\ MemoRespected(handled.jspCacheBefore, jspPathCache)
       /\ MemoRespected(handled.sfJspCacheBefore, sfJspPathCache)

\* A change of a setting the stack-frame rewriter reads.
RewriterSettingsChanged ==
  \E key \in {"sfEnabled", "webRoots", "markerCacheMaxEntries",
               "markerCacheStatDebounceMs", "jspPathCacheTtlMs"} :
    settings[key] # Val(handled.configBefore)[key]

\* C30 as stated: the memo decides within the TTL, the filesystem outside
\* it, and every configuration change empties the memo of both interceptors.
C30_AsStated ==
  /\ MemoDecidesResolution
  /\ handled.by = "configListener" => jspPathCache = <<>> /\ sfJspPathCache = <<>>

\* C30: the memo decides within the TTL, the filesystem outside it; a
\* configuration change empties the translator's memo, and the rewriter's
\* memo when it changes a setting of the stack-frame rewriter.
C30_MemoWithinTtlClearedWhenAffected ==
  /\ MemoDecidesResolution
  /\ handled.by = "configListener" =>
       /\ jspPathCache = <<>>
       /\ RewriterSettingsChanged => sfJspPathCache = <<>>

\* Within the TTL a frame was rewritten to the template the memo names
\* although the template has been deleted since.
C30_Witness ==
  /\ ResolutionHandled
  /\ MemoFresh(ResolvedMemo)
  /\ Val(ResolvedMemo).resolvedPath = Some(JspIndex)
  /\ ~existsSync(disk, JspIndex)
  /\ handled.out.items[1].path = Some(JspIndex)

\* ------------------------------------ claims on the response's breakpoints

\* Breakpoint bp reports a source of its own that looks like a compiled
\* template.
ReportsCompiledSource(bp) ==
  bp.path # None /\ EffectivePath(bp) = Val(bp.path)

\* Breakpoint bp as the markers now on disk of compiled source p map it: to
\* the floor marker's template line in the resolved template, or as it came
\* when p cannot be read, has no marker at or before the line, or the marker
\* names no template that resolves.
MappedWithMarkersOf(bp, p) ==
  LET ms == DiskMarkers(disk, p)
  IN IF ms = None THEN bp
     ELSE IF AtOrBefore(Val(ms), Val(bp.line)) = {} THEN bp
     ELSE LET fl == Val(ms)[FloorIndex(Val(ms), Val(bp.line))]
          IN IF fl.jspFile = None THEN bp
             ELSE IF ResolvedTemplate(Val(fl.jspFile)) = None THEN bp
             ELSE Item(Some(fl.jspLine), ResolvedTemplate(Val(fl.jspFile)))

\* C31: in a correlated setBreakpoints response a breakpoint that reports a
\* compiled source of its own comes out as the markers on disk of that source
\* map its line, and a breakpoint without one as the markers on disk of the
\* pending translation's compiled source map it.
C31_ReportedPathPreferred ==
  CorrelatedResponseHandled =>
    \A i \in 1..Len(handled.in.items) :
      handled.in.items[i].line # None =>
        handled.out.items[i] =
          (IF ReportsCompiledSource(handled.in.items[i])
           THEN MappedWithMarkersOf(handled.in.items[i], Val(handled.in.items[i].path))
           ELSE MappedWithMarkersOf(handled.in.items[i], PendingBefore.generatedJavaPath))

\* ------------------------------------ claims on the debounce window

\* The entry the read made last left for its path.
EntryAfterRead == Val(MapGet(map, lastOp.path))

\* C32: a read without forceStat that returns markers either stats the file,
\* and then the entry's last-check time is the time of the read, or is served
\* from the debounce window, and then the last-check time stays what it was
\* and lies less than statDebounceMs before the read: the last-check time is
\* always the time of a stat, and markers verified statDebounceMs or longer
\* ago are never returned.
C32_WindowCountedFromLastStat ==
  (lastOp.op = "read" /\ ~lastOp.forceStat /\ lastOp.result # None) =>
    /\ MapGet(map, lastOp.path) # None
    /\ IF lastOp.stats = 0
       THEN /\ lastOp.existing # None
            /\ EntryAfterRead.lastStatCheckMs = Val(lastOp.existing).lastStatCheckMs
            /\ lastOp.at - EntryAfterRead.lastStatCheckMs < statDebounceMs
       ELSE EntryAfterRead.lastStatCheckMs = lastOp.at

\* A read was served from the window some time after the last stat: the
\* entry it leaves still carries the time of that stat, not the time of the
\* read.
C32_Witness ==
  /\ lastOp.op = "read"
  /\ ~lastOp.forceStat
  /\ lastOp.result # None
  /\ lastOp.stats = 0
  /\ lastOp.existing # None
  /\ lastOp.at > Val(lastOp.existing).lastStatCheckMs
  /\ MapGet(map, lastOp.path) # None
  /\ EntryAfterRead.lastStatCheckMs < lastOp.at

\* ------------------------------------ claims on uncorrelated responses

\* A successful setBreakpoints response whose request_seq had no pending
\* translation was handled by a session with the translator's callbacks.
UncorrelatedResponseHandled ==
  /\ ByResponseHandlers
  /\ trackers[handled.session].bp
  /\ IsSetBreakpointsResponse(handled.in)
  /\ \/ handled.in.request_seq = None
     \/ CacheGet(handled.pendingBefore, Val(handled.in.request_seq)) = None

\* C33: a setBreakpoints response whose request_seq has no pending
\* translation is delivered as it came, and the pending translations, the
\* marker cache and the resolved-path cache are left as they were.
C33_UncorrelatedResponseUntouched ==
  UncorrelatedResponseHandled =>
    /\ handled.mid = handled.in
    /\ handled.out = handled.in
    /\ pendingByRequestSeq = handled.pendingBefore
    /\ map = handled.mapBefore
    /\ jspPathCache = handled.jspCacheBefore

\* The request under the response's request_seq had been rewritten and its
\* pending translation is gone, with no configuration change before the
\* response (an earlier response consumed it); the response names a compiled line that the markers on disk map to the
\* template, and passes as it came.
C33_Witness ==
  /\ UncorrelatedResponseHandled
  /\ handled.configBefore = None
  /\ handled.in.success
  /\ handled.in.request_seq # None
  /\ CacheGet(sent, Val(handled.in.request_seq)) # None
  /\ Len(handled.in.items) = 1
  /\ handled.in.items[1].line # None
  /\ MappedWithMarkersOf(handled.in.items[1], SentBefore.generatedJavaPath)
       # handled.in.items[1]
  /\ handled.out = handled.in

\* ------------------------------------ claims on a change before a response

\* C35: the change listener leaves no pending translation, and a
\* setBreakpoints response handled next after a configuration change is
\* delivered as it came, with its compiled-source lines and paths, also
\* when it answers a request that was rewritten before the change.
C35_ChangeDropsPendingTranslations ==
  [][ /\ handled'.by = "configListener" => pendingByRequestSeq' = <<>>
      /\ ( /\ handled.by = "configListener"
           /\ handled'.by = "onDidSendMessage"
           /\ IsSetBreakpointsResponse(handled'.in) ) =>
            /\ handled'.mid = handled'.in
            /\ handled'.out = handled'.in
            /\ pendingByRequestSeq' = <<>> ]_vars

\* A request was rewritten, the configuration changed, and the response to
\* the request, naming a compiled line that the markers on disk map to the
\* template, passed as it came.
C35_Witness ==
  /\ ByResponseHandlers
  /\ IsSetBreakpointsResponse(handled.in)
  /\ handled.in.success
  /\ trackers[handled.session].bp
  /\ handled.configBefore # None
  /\ handled.pendingBefore = <<>>
  /\ handled.in.request_seq # None
  /\ CacheGet(sent, Val(handled.in.request_seq)) # None
  /\ Len(handled.in.items) = 1
  /\ MappedWithMarkersOf(handled.in.items[1], SentBefore.generatedJavaPath)
       # handled.in.items[1]
  /\ handled.out = handled.in

\* ------------------------------------ claims on mixed requests

\* The translator rewrote the setBreakpoints request handled last.
RequestRewritten ==
  /\ TemplateRequestHandled
  /\ handled.found # None
  /\ handled.mid.path = handled.found
  /\ handled.mid.path # handled.in.path

\* The breakpoints of that request whose template line has a marker of the
\* compiled source to be translated through.
WithMarker ==
  Translatable(Val(LocatedMarkers),
               computePossibleMarkerJspRefs(Val(handled.in.path), settings.webRoots),
               handled.in.items)

\* C34: in a rewritten setBreakpoints request every breakpoint whose line has
\* a matching marker carries the compiled line after that marker, and every
\* other breakpoint is as it came, with its template line number, under the
\* compiled source path.
C34_UnmatchedLinesKeepTemplateLine ==
  RequestRewritten =>
    \A i \in 1..Len(handled.in.items) :
      IF i \in WithMarker
      THEN handled.mid.items[i] = TranslatedFromDisk(i)
      ELSE handled.mid.items[i] = handled.in.items[i]

\* A request of two breakpoints: the first line lies before every marker's
\* template line and is kept, the second is translated.
C34_Witness ==
  /\ RequestRewritten
  /\ Len(handled.in.items) = 2
  /\ handled.in.items[1].line # None
  /\ handled.in.items[2].line # None
  /\ WithMarker = {2}
  /\ handled.mid.items[1].line = handled.in.items[1].line
  /\ handled.mid.items[2].line # handled.in.items[2].line

\* ------------------------------------ claims on a recompile before a response

\* The translator's callback handled a response that answers a rewritten
\* request, and the compiled
\* source of the pending translation is on disk with another fingerprint than
\* the marker cache held for it before the response, and with other markers
\* than the request was translated with.
RecompiledSinceRequest ==
  /\ CorrelatedResponseHandled
  /\ trackers[handled.session].bp
  /\ CacheGet(sent, Val(handled.in.request_seq)) # None
  /\ SentBefore.generatedJavaPath = PendingBefore.generatedJavaPath
  /\ MapGet(handled.mapBefore, PendingBefore.generatedJavaPath) # None
  /\ existsSync(disk, PendingBefore.generatedJavaPath)
  /\ FingerprintDiffers(Val(MapGet(handled.mapBefore, PendingBefore.generatedJavaPath)),
                        Val(StatOf(disk, PendingBefore.generatedJavaPath)))
  /\ DiskMarkers(disk, PendingBefore.generatedJavaPath) # SentBefore.markers

\* C36: when the compiled source of a pending translation was recompiled
\* with a changed fingerprint between the request and its response, every
\* returned breakpoint mapped through that source comes out as the markers
\* on disk at the time of the response map it.
C36_MappedBackWithMarkersAtResponse ==
  RecompiledSinceRequest =>
    \A i \in 1..Len(handled.in.items) :
      ( /\ handled.in.items[i].line # None
        /\ EffectivePath(handled.in.items[i]) = PendingBefore.generatedJavaPath ) =>
        handled.out.items[i]
          = MappedWithMarkersOf(handled.in.items[i], PendingBefore.generatedJavaPath)

\* The breakpoint came back at another template line than the floor marker
\* of the request's markers names.
C36_Witness ==
  /\ RecompiledSinceRequest
  /\ Len(handled.in.items) = 1
  /\ handled.in.items[1].line # None
  /\ EffectivePath(handled.in.items[1]) = PendingBefore.generatedJavaPath
  /\ handled.out.items[1].path = Some(JspIndex)
  /\ AtOrBefore(Val(SentBefore.markers), Val(handled.in.items[1].line)) # {}
  /\ handled.out.items[1].line
       # Some(Val(SentBefore.markers)[FloorIndex(Val(SentBefore.markers),
                                                Val(handled.in.items[1].line))].jspLine)


\* ------------------------------------ claims on the locator's discovery pass

\* The locator walked the work directories for the request's template.
FreshPassHandled == LookupHandled /\ handled.walk # None

\* computePossibleMarkerJspRefs for the template of the request handled last.
PlausibleRefs ==
  computePossibleMarkerJspRefs(Val(handled.in.path), settings.webRoots)

\* f passes the name tests of the scan loop.
IsCandidate(f) ==
  FileExt(basename(f)) = "java" /\ isLikelyGeneratedJspServletSource(f)

\* The references the markers of f state on disk; with slashes, backslashes
\* replaced by '/'.
StatedRefs(f, slashes) ==
  IF DiskMarkers(disk, f) = None THEN {}
  ELSE {IF slashes THEN NormalizeSlashes(Val(Val(DiskMarkers(disk, f))[i].jspFile))
        ELSE Val(Val(DiskMarkers(disk, f))[i].jspFile) :
          i \in {k \in 1..Len(Val(DiskMarkers(disk, f))) :
                   Val(DiskMarkers(disk, f))[k].jspFile # None}}

\* The positions in walk order of the candidates that state the template.
Stating(slashes) ==
  {k \in 1..Len(WalkAll(disk, settings.tomcatWorkDirs, 1)) :
     /\ IsCandidate(WalkAll(disk, settings.tomcatWorkDirs, 1)[k])
     /\ StatedRefs(WalkAll(disk, settings.tomcatWorkDirs, 1)[k], slashes)
          \cap PlausibleRefs # {}}

\* The path a pass returned is the first in walk order among Stating(slashes).
ReturnedIsFirst(slashes) ==
  (FreshPassHandled /\ handled.found # None) =>
    /\ Stating(slashes) # {}
    /\ Val(handled.found)
         = WalkAll(disk, settings.tomcatWorkDirs, 1)
             [CHOOSE k \in Stating(slashes) : \A j \in Stating(slashes) : k <= j]

\* C37 as stated: the path a fresh discovery pass returns is the first
\* candidate in walk order with a marker whose reference equals one of the
\* template's plausible reference strings.
C37_AsStated == ReturnedIsFirst(FALSE)

\* C37: the path a fresh discovery pass returns is the first candidate in walk
\* order that passes the name heuristic and has on disk a marker whose
\* reference, with backslashes replaced by '/', is one of the template's
\* plausible reference strings (the path relative to a web root, that path
\* with a leading '/', the file name); no other file is returned.
C37_FirstStatingCandidate == ReturnedIsFirst(TRUE)

\* The first compiled source in walk order has markers, none of them naming
\* the template: the pass went past it and returned the second.
C37_Witness ==
  /\ FreshPassHandled
  /\ handled.found = Some(GenOther)
  /\ IsCandidate(GenIndex)
  /\ DiskMarkers(disk, GenIndex) # None
  /\ Len(Val(DiskMarkers(disk, GenIndex))) > 0
  /\ StatedRefs(GenIndex, TRUE) \cap PlausibleRefs = {}
  /\ WalkAll(disk, settings.tomcatWorkDirs, 1) = <<GenIndex, GenOther>>


\* ------------------------------------ claims on what a rewrite leaves alone

\* Frame i of the response handled last came out other than it went in.
FrameRewritten(i) == handled.out.items[i] # handled.in.items[i]

\* The floor marker on disk of a frame whose source has markers at or before
\* its line.
FloorOnDisk(frame) ==
  Val(DiskMarkers(disk, Val(frame.path)))
    [FloorIndex(Val(DiskMarkers(disk, Val(frame.path))), Val(frame.line))]

\* The frame's source can be read and has a marker at or before its line that
\* names a template which resolves.
FrameResolves(frame) ==
  /\ DiskMarkers(disk, Val(frame.path)) # None
  /\ AtOrBefore(Val(DiskMarkers(disk, Val(frame.path))), Val(frame.line)) # {}
  /\ FloorOnDisk(frame).jspFile # None
  /\ SfResolvedTemplate(Val(FloorOnDisk(frame).jspFile)) # None

\* C38: when a stack frame is rewritten, its line becomes the floor marker's
\* jspLine, its source's path the resolved template path and its source's name
\* the base name of that path; the frame's id and name, its source's
\* sourceReference, every other frame and every other field of the message
\* are as they came in.
C38_OnlyLineNameAndPathChange ==
  StackTraceHandled =>
    /\ [handled.out EXCEPT !.items = handled.in.items] = handled.in
    /\ Len(handled.out.items) = Len(handled.in.items)
    /\ \A i \in 1..Len(handled.in.items) :
         FrameRewritten(i) =>
           /\ i \in Qualifying(handled.in.items)
           /\ FrameResolves(handled.in.items[i])
           /\ handled.out.items[i]
                = [handled.in.items[i] EXCEPT
                     !.line = Some(FloorOnDisk(handled.in.items[i]).jspLine),
                     !.path = SfResolvedTemplate(Val(FloorOnDisk(handled.in.items[i]).jspFile)),
                     !.sourceName =
                       Some(basename(Val(SfResolvedTemplate(
                                           Val(FloorOnDisk(handled.in.items[i]).jspFile)))))]

\* Of three frames with ids, names and named sources the first and the third
\* were rewritten to the template, the second, of a Java file, was not; the
\* rewritten ones kept id, name and sourceReference.
C38_Witness ==
  /\ StackTraceHandled
  /\ Len(handled.in.items) = 3
  /\ FrameRewritten(1) /\ ~FrameRewritten(2) /\ FrameRewritten(3)
  /\ handled.in.items[1].sourceName = Some("index_jsp.java")
  /\ handled.out.items[1].sourceName = Some("index.jsp")
  /\ handled.out.items[1].path = Some(JspIndex)
  /\ handled.out.items[1].line # handled.in.items[1].line
  /\ handled.out.items[3].id = 3
  /\ handled.out.items[3].name = Some("frame-3")
  /\ handled.out.items[3].sourceReference = Some(7)

====
